---- MODULE Spec2Model ----
(***************************************************************************)
(* A model of the FSP observer: the VotingRoundManager                     *)
(* (observer/voting_round.py), the SigningPolicyBuilder                    *)
(* (observer/reward_epoch_manager.py) and the ingestion loop               *)
(* (observer/observer.py).                                                 *)
(*                                                                         *)
(* A VotingEpoch object is represented by its integer id (there is one     *)
(* epoch factory), a python dict by the sequence of its entries in         *)
(* insertion order, None of an integer-valued slot by NoneInt.             *)
(***************************************************************************)
EXTENDS Integers, Sequences, FiniteSets, TLC

VARIABLES
    finalized,      \* VotingRoundManager.finalized
    rounds,         \* VotingRoundManager.rounds, in insertion order
    returnCount,    \* history: epoch id -> number of times finalize returned it
    lastRet,        \* history: the list returned, if the last call was finalize
    lastDropped,    \* history: the keys that finalize call popped unreturned
    lastTs,         \* history: block["timestamp"] of that finalize call
    lastOp,         \* history: the last manager operation, "get" or "finalize"
    createdLive,    \* history: ids get() created while id > finalized
    spb,            \* the SigningPolicyBuilder being filled
    signing_policy, \* the SigningPolicy in force (NoPolicy before the first build)
    pc,             \* position of the running function
    chain,          \* timestamps of the blocks fetched so far, by block number
    block_number,   \* observer_loop: the cursor block_number
    latest_block,   \* observer_loop: the last chain head read
    block,          \* observer_loop: the loop variable of `for block in range`
    voting_epoch,   \* observer_loop: voting_epoch
    processedMax,   \* history: greatest block number the main loop processed
    nLogs,          \* history: logs delivered so far
    nTxs,           \* history: transactions delivered so far
    validated,      \* history: ids of the rounds both validators completed on
    lastTx,         \* history: what became of the last transaction delivered
    arg,            \* the arguments of the function called on its own
    res             \* what that call returned (<<>> before it)

vrmVars == <<finalized, rounds, returnCount, lastRet, lastDropped, lastTs,
             lastOp, createdLive>>

polVars == <<spb, signing_policy>>

loopVars == <<chain, block_number, latest_block, block, voting_epoch,
              processedMax, nLogs, nTxs, validated, lastTx>>

callVars == <<arg, res>>

vars == <<vrmVars, polVars, pc, loopVars, callVars>>

(***************************************************************************)
(* Bounds of the model.                                                    *)
(***************************************************************************)
MaxEpoch == 3       \* voting epoch ids are 0..MaxEpoch
MaxRegistered == 2  \* VoterRegistered / VoterRegistrationInfo events per window
MaxRemoved == 1     \* VoterRemoved events per window
MaxBlock == 4       \* block numbers are 1..MaxBlock
MaxLogs == 2        \* logs delivered to the ingestion loop in one run
MaxTxs == 1         \* transactions delivered to the ingestion loop in one run
EpochLen == 90      \* voting epoch duration in seconds (a configuration value)
MaxPayloads == 3    \* payloads in a WParsedPayloadList called on its own
MaxTime == 3        \* its timestamps and range bounds are 0..MaxTime
MaxRequests == 3    \* requests in an AttestationRequestMapper called on its own
MaxBits == 9        \* length of a bit vector packed and inflated on its own
MaxAdds == 4        \* calls of add on a builder used on its own
MaxPositions == 4   \* blocks a registration-window search can visit

NoneInt == -1

Max(a, b) == IF a >= b THEN a ELSE b

Range(s) == {s[i] : i \in 1..Len(s)}

EpochIds == 0..MaxEpoch

(***************************************************************************)
(* Epoch calculus (py_flare_common VotingEpoch, as the data model of the   *)
(* specification describes it).                                            *)
(***************************************************************************)
StartS(id) == id * EpochLen

EndS(id) == StartS(id + 1)

NextOf(id) == id + 1

PreviousOf(id) == id - 1

FromTimestamp(ts) == ts \div EpochLen

(***************************************************************************)
(* VotingRound and VotingRoundManager.                                     *)
(***************************************************************************)
\* an optional event or object: the empty sequence is None
NoEvent == <<>>

\* FtsoVotingRoundProtocol(): three empty ParsedPayloadMappers, no finalization
NewFtsoProtocol ==
    [submit_1          |-> <<>>,
     submit_2          |-> <<>>,
     submit_signatures |-> <<>>,
     finalization      |-> NoEvent]

\* FdcVotingRoundProtocol(): the same, with requests and consensus_bitvote
NewFdcProtocol ==
    [submit_1          |-> <<>>,
     submit_2          |-> <<>>,
     submit_signatures |-> <<>>,
     finalization      |-> NoEvent,
     requests          |-> <<>>,
     consensus_bitvote |-> <<>>]

NewRound(v) ==
    [voting_epoch |-> v, ftso |-> NewFtsoProtocol, fdc |-> NewFdcProtocol]

Keys(rs) == {rs[i].voting_epoch : i \in 1..Len(rs)}

KeyList(rs) == [i \in 1..Len(rs) |-> rs[i].voting_epoch]

RoundOf(rs, k) == rs[CHOOSE i \in 1..Len(rs) : rs[i].voting_epoch = k]

\* dict.pop(k): the entries without k, order kept
Pop(rs, k) == SelectSeq(rs, LAMBDA r : r.voting_epoch # k)

\* VotingRoundManager.get: insert-if-absent at the end of the dict
Get(rs, v) == IF v \in Keys(rs) THEN rs ELSE Append(rs, NewRound(v))

IsLateStrict(k, f) == k < f

\* the test `k.id <= self.finalized`
IsLate(k, f) == k <= f

\* round_completed with the grace of one more epoch
RoundCompletedTwoEpochs(k, ts) == EndS(NextOf(NextOf(k))) < ts

\* round_completed with <= in place of <
RoundCompletedNotStrict(k, ts) == EndS(NextOf(k)) <= ts

\* round_completed = k.next.end_s < block["timestamp"]
RoundCompleted(k, ts) == EndS(NextOf(k)) < ts

\* a finalize body without the late-round branch, assigning finalized
FinalizeKeyNoGC(st, k, ts) ==
    IF RoundCompleted(k, ts)
    THEN [st EXCEPT !.finalized = k,
                    !.rounds    = Pop(@, k),
                    !.ret       = Append(@, RoundOf(st.rounds, k))]
    ELSE st

\* a finalize body whose late-round branch continues without popping
FinalizeKeyNoPop(st, k, ts) ==
    IF IsLate(k, st.finalized)
    THEN st
    ELSE IF RoundCompleted(k, ts)
    THEN [st EXCEPT !.finalized = Max(@, k),
                    !.rounds    = Pop(@, k),
                    !.ret       = Append(@, RoundOf(st.rounds, k))]
    ELSE st

\* one iteration of the loop of finalize, on key k
FinalizeKey(st, k, ts) ==
    IF IsLate(k, st.finalized)
    THEN [st EXCEPT !.rounds  = Pop(@, k),
                    !.dropped = Append(@, k)]
    ELSE IF RoundCompleted(k, ts)
    THEN [st EXCEPT !.finalized = Max(@, k),
                    !.rounds    = Pop(@, k),
                    !.ret       = Append(@, RoundOf(st.rounds, k))]
    ELSE st

RECURSIVE FinalizeLoop(_, _, _)
FinalizeLoop(keys, st, ts) ==
    IF keys = <<>> THEN st
    ELSE FinalizeLoop(Tail(keys), FinalizeKey(st, Head(keys), ts), ts)

\* VotingRoundManager.finalize: the state after the call, its return list
\* (ret) and the keys it popped without returning them (dropped)
Finalize(f, rs, ts) ==
    FinalizeLoop(KeyList(rs),
                 [finalized |-> f, rounds |-> rs, ret |-> <<>>, dropped |-> <<>>],
                 ts)

RetIds(ret) == [i \in 1..Len(ret) |-> ret[i].voting_epoch]

Occurrences(s, x) == Cardinality({i \in 1..Len(s) : s[i] = x})

\* how many times finalize has returned the round of epoch k
Returned(k) == IF k \in DOMAIN returnCount THEN returnCount[k] ELSE 0

\* rs with the round of epoch k replaced by r
SetRound(rs, k, r) ==
    [i \in 1..Len(rs) |-> IF rs[i].voting_epoch = k THEN r ELSE rs[i]]

\* the manager's variables after vrm.get(v) followed by the caller's update
\* of the round it returned, which leaves the round as r
GetAndSet(v, r) ==
    /\ rounds' = SetRound(Get(rounds, v), v, r)
    /\ createdLive' = IF v \notin Keys(rounds) /\ v > finalized
                      THEN createdLive \cup {v} ELSE createdLive
    /\ lastOp' = "get"
    /\ lastRet' = <<>>
    /\ lastDropped' = <<>>
    /\ lastTs' = 0
    /\ UNCHANGED <<finalized, returnCount>>

\* the manager's variables after get(v)
DoGet(v) ==
    /\ rounds' = Get(rounds, v)
    /\ createdLive' = IF v \notin Keys(rounds) /\ v > finalized
                      THEN createdLive \cup {v} ELSE createdLive
    /\ lastOp' = "get"
    /\ lastRet' = <<>>
    /\ lastDropped' = <<>>
    /\ lastTs' = 0
    /\ UNCHANGED <<finalized, returnCount>>

\* the manager's variables after finalize(block) with block["timestamp"] = ts
DoFinalize(ts) ==
    LET st == Finalize(finalized, rounds, ts) IN
    /\ finalized' = st.finalized
    /\ rounds' = st.rounds
    /\ lastRet' = RetIds(st.ret)
    /\ lastDropped' = st.dropped
    /\ returnCount' = [k \in (DOMAIN returnCount) \cup Range(RetIds(st.ret)) |->
                          Returned(k) + Occurrences(RetIds(st.ret), k)]
    /\ lastTs' = ts
    /\ lastOp' = "finalize"
    /\ UNCHANGED createdLive

(***************************************************************************)
(* Entity, EntityMapper, SigningPolicy and SigningPolicyBuilder.           *)
(* An optional event slot is the empty sequence (None) or a one-element    *)
(* sequence.  Of an Entity the five addresses and normalized_weight are    *)
(* kept; its other fields are copied from the events unchanged.            *)
(***************************************************************************)
\* dict[k] = v
Put(m, k, v) == [x \in (DOMAIN m) \cup {k} |-> IF x = k THEN v ELSE m[x]]

EmptyMapper ==
    [by_identity_address          |-> <<>>,
     by_submit_address            |-> <<>>,
     by_submit_signatures_address |-> <<>>,
     by_signing_policy_address    |-> <<>>,
     by_delegation_address        |-> <<>>,
     by_omni                      |-> <<>>]

\* EntityMapper.insert
Insert(m, e) ==
    [by_identity_address |->
         Put(m.by_identity_address, e.identity_address, e),
     by_submit_address |->
         Put(m.by_submit_address, e.submit_address, e),
     by_submit_signatures_address |->
         Put(m.by_submit_signatures_address, e.submit_signatures_address, e),
     by_signing_policy_address |->
         Put(m.by_signing_policy_address, e.signing_policy_address, e),
     by_delegation_address |->
         Put(m.by_delegation_address, e.delegation_address, e),
     by_omni |->
         Put(Put(Put(Put(Put(m.by_omni,
             e.identity_address, e),
             e.submit_address, e),
             e.submit_signatures_address, e),
             e.signing_policy_address, e),
             e.delegation_address, e)]

EntityAddresses(e) ==
    {e.identity_address, e.submit_address, e.submit_signatures_address,
     e.signing_policy_address, e.delegation_address}

NoPolicy ==
    [reward_epoch       |-> NoneInt,
     vote_power_block   |-> NoneInt,
     start_voting_round |-> NoneInt,
     entities           |-> <<>>,
     entity_mapper      |-> EmptyMapper]

\* SigningPolicy.builder(): every slot None, every list empty
NewBuilder ==
    [reward_epoch               |-> NoneInt,
     random_acquisation_started |-> NoEvent,
     vote_power_block_selected  |-> NoEvent,
     voter_registered           |-> <<>>,
     voter_registration_info    |-> <<>>,
     voter_removed              |-> <<>>,
     signing_policy_initialized |-> NoEvent]

\* SigningPolicyBuilder.for_epoch
ForEpoch(b, r) == [b EXCEPT !.reward_epoch = r]

\* add without the assertion on signing_policy_initialized
AddOkWithoutInitializedAssertion(b, ev) ==
    /\ ev.kind = "RandomAcquisitionStarted"
           => b.random_acquisation_started = NoEvent
    /\ ev.kind = "VotePowerBlockSelected"
           => b.vote_power_block_selected = NoEvent

\* the assertions of SigningPolicyBuilder.add hold for event ev
AddOk(b, ev) ==
    /\ ev.kind = "RandomAcquisitionStarted"
           => b.random_acquisation_started = NoEvent
    /\ ev.kind = "VotePowerBlockSelected"
           => b.vote_power_block_selected = NoEvent
    /\ ev.kind = "SigningPolicyInitialized"
           => b.signing_policy_initialized = NoEvent

\* SigningPolicyBuilder.add, when its assertions hold
Add(b, ev) ==
    CASE ev.kind = "RandomAcquisitionStarted" ->
             [b EXCEPT !.random_acquisation_started = <<ev>>]
      [] ev.kind = "VotePowerBlockSelected" ->
             [b EXCEPT !.vote_power_block_selected = <<ev>>]
      [] ev.kind = "VoterRegistered" ->
             [b EXCEPT !.voter_registered = Append(@, ev)]
      [] ev.kind = "VoterRegistrationInfo" ->
             [b EXCEPT !.voter_registration_info = Append(@, ev)]
      [] ev.kind = "VoterRemoved" ->
             [b EXCEPT !.voter_removed = Append(@, ev)]
      [] ev.kind = "SigningPolicyInitialized" ->
             [b EXCEPT !.signing_policy_initialized = <<ev>>]

\* the greatest element of a non-empty set of indices (a dict comprehension
\* keeps the last value written under a key)
SetMax(S) == CHOOSE x \in S : \A y \in S : y <= x

\* spa = {v.signing_policy_address: v.voter for v in self.voter_registered}
SpaHas(b, a) ==
    \E i \in 1..Len(b.voter_registered) :
        b.voter_registered[i].signing_policy_address = a

Spa(b, a) ==
    b.voter_registered[
        SetMax({i \in 1..Len(b.voter_registered) :
                   b.voter_registered[i].signing_policy_address = a})].voter

\* vre = vres[spa[voter]], vres = {v.voter: v for v in self.voter_registered}
Vres(b, voter) ==
    b.voter_registered[
        SetMax({i \in 1..Len(b.voter_registered) :
                   b.voter_registered[i].voter = Spa(b, voter)})]

\* vries = {v.voter: v for v in self.voter_registration_info}
VriesHas(b, v) ==
    \E i \in 1..Len(b.voter_registration_info) :
        b.voter_registration_info[i].voter = v

Vrie(b, voter) ==
    b.voter_registration_info[
        SetMax({i \in 1..Len(b.voter_registration_info) :
                   b.voter_registration_info[i].voter = Spa(b, voter)})]

\* every assertion, key lookup and index of build() succeeds
BuildOk(b) ==
    /\ b.reward_epoch # NoneInt
    /\ b.random_acquisation_started # NoEvent
    /\ b.random_acquisation_started[1].reward_epoch_id = b.reward_epoch
    /\ b.vote_power_block_selected # NoEvent
    /\ b.vote_power_block_selected[1].reward_epoch_id = b.reward_epoch
    /\ b.signing_policy_initialized # NoEvent
    /\ b.signing_policy_initialized[1].reward_epoch_id = b.reward_epoch
    /\ Len(b.voter_registered) = Len(b.voter_registration_info)
    /\ LET spi == b.signing_policy_initialized[1] IN
       \A i \in 1..Len(spi.voters) :
          /\ i <= Len(spi.weights)
          /\ SpaHas(b, spi.voters[i])
          /\ VriesHas(b, Spa(b, spi.voters[i]))

\* the Entity build() constructs for voters[i]
BuildEntity(b, i) ==
    LET spi  == b.signing_policy_initialized[1]
        vre  == Vres(b, spi.voters[i])
        vrie == Vrie(b, spi.voters[i])
    IN  [identity_address          |-> vre.voter,
         submit_address            |-> vre.submit_address,
         submit_signatures_address |-> vre.submit_signatures_address,
         signing_policy_address    |-> vre.signing_policy_address,
         delegation_address        |-> vrie.delegation_address,
         normalized_weight         |-> spi.weights[i]]

BuildEntities(b) ==
    [i \in 1..Len(b.signing_policy_initialized[1].voters) |-> BuildEntity(b, i)]

RECURSIVE InsertAll(_, _)
InsertAll(m, es) ==
    IF es = <<>> THEN m ELSE InsertAll(Insert(m, Head(es)), Tail(es))

\* SigningPolicyBuilder.build, when BuildOk
Build(b) ==
    [reward_epoch       |-> b.reward_epoch,
     vote_power_block   |-> b.vote_power_block_selected[1].vote_power_block,
     start_voting_round |->
         b.signing_policy_initialized[1].start_voting_round_id,
     entities           |-> BuildEntities(b),
     entity_mapper      |-> InsertAll(EmptyMapper, BuildEntities(b))]

(***************************************************************************)
(* Events the node may deliver.                                            *)
(***************************************************************************)
Voters == {"v1", "v2"}

SigningAddrs == {"p1", "p2"}

SubmitAddrs == {"s1", "s2"}

\* the submit-signatures address of a voter
SubmitSignaturesAddr(v) == IF v = "v1" THEN "g1" ELSE "g2"

DelegationAddrs == {"d1", "d2", "s1"}

RewardEpochIds == {1, 2}

RandomAcquisitionStartedEvents ==
    {[kind |-> "RandomAcquisitionStarted", reward_epoch_id |-> r] :
        r \in RewardEpochIds}

VotePowerBlockSelectedEvents ==
    {[kind |-> "VotePowerBlockSelected", reward_epoch_id |-> r,
      vote_power_block |-> 7] : r \in RewardEpochIds}

VoterRegisteredEvents ==
    {[kind |-> "VoterRegistered", voter |-> v, signing_policy_address |-> p,
      submit_address |-> s,
      submit_signatures_address |-> SubmitSignaturesAddr(v)] :
        v \in Voters, p \in SigningAddrs, s \in SubmitAddrs}

VoterRegistrationInfoEvents ==
    {[kind |-> "VoterRegistrationInfo", voter |-> v, delegation_address |-> d] :
        v \in Voters, d \in DelegationAddrs}

VoterRemovedEvents == {[kind |-> "VoterRemoved", voter |-> "v2"]}

\* the voters of a SigningPolicyInitialized event: signing-policy addresses,
\* none listed twice
VoterLists ==
    {<<p>> : p \in SigningAddrs} \cup
    {v \in SigningAddrs \X SigningAddrs : v[1] # v[2]}

\* weights[i] of the event: 10, 20, ...
WeightsFor(voters) == [i \in 1..Len(voters) |-> 10 * i]

SigningPolicyInitializedEvents(startRounds) ==
    {[kind |-> "SigningPolicyInitialized", reward_epoch_id |-> r,
      start_voting_round_id |-> sv, voters |-> vs, weights |-> WeightsFor(vs)] :
        r \in RewardEpochIds, sv \in startRounds, vs \in VoterLists}

(***************************************************************************)
(* SpecBuild: get_signing_policy_events, the historical scan that folds    *)
(* the logs of the registration window into a builder for reward epoch 1   *)
(* and builds the policy when it meets SigningPolicyInitialized or runs    *)
(* out of logs.                                                            *)
(***************************************************************************)
IdleVrm ==
    /\ finalized = NoneInt
    /\ rounds = <<>>
    /\ returnCount = <<>>
    /\ lastRet = <<>>
    /\ lastDropped = <<>>
    /\ lastTs = 0
    /\ lastOp = "init"
    /\ createdLive = {}

IdleLoop ==
    /\ chain = <<>>
    /\ block_number = NoneInt
    /\ latest_block = NoneInt
    /\ block = NoneInt
    /\ voting_epoch = NoneInt
    /\ processedMax = NoneInt
    /\ nLogs = 0
    /\ nTxs = 0
    /\ validated = {}
    /\ lastTx = "none"

\* no function is being called on its own
IdleCall == arg = <<>> /\ res = <<>>

InitBuild ==
    /\ IdleVrm
    /\ IdleLoop
    /\ IdleCall
    /\ spb = ForEpoch(NewBuilder, 1)
    /\ signing_policy = NoPolicy
    /\ pc = "scan"

\* builder.add(e) for a log that is not SigningPolicyInitialized
ScanAdd(ev) ==
    /\ pc = "scan"
    /\ IF AddOk(spb, ev)
       THEN spb' = Add(spb, ev) /\ pc' = "scan"
       ELSE spb' = spb /\ pc' = "aborted"
    /\ UNCHANGED <<vrmVars, signing_policy, loopVars, callVars>>

\* return builder.build()
ScanBuild(b) ==
    /\ spb' = b
    /\ IF BuildOk(b)
       THEN signing_policy' = Build(b) /\ pc' = "built"
       ELSE signing_policy' = signing_policy /\ pc' = "aborted"
    /\ UNCHANGED <<vrmVars, loopVars, callVars>>

ScanRandomAcquisitionStarted ==
    \E ev \in RandomAcquisitionStartedEvents : ScanAdd(ev)

ScanVotePowerBlockSelected ==
    \E ev \in VotePowerBlockSelectedEvents : ScanAdd(ev)

ScanVoterRegistered ==
    /\ Len(spb.voter_registered) < MaxRegistered
    /\ \E ev \in VoterRegisteredEvents : ScanAdd(ev)

ScanVoterRegistrationInfo ==
    /\ Len(spb.voter_registration_info) < MaxRegistered
    /\ \E ev \in VoterRegistrationInfoEvents : ScanAdd(ev)

ScanVoterRemoved ==
    /\ Len(spb.voter_removed) < MaxRemoved
    /\ \E ev \in VoterRemovedEvents : ScanAdd(ev)

\* SigningPolicyInitialized: add, leave the loop, build
ScanSigningPolicyInitialized ==
    /\ pc = "scan"
    /\ \E ev \in SigningPolicyInitializedEvents({2}) :
          IF AddOk(spb, ev)
          THEN ScanBuild(Add(spb, ev))
          ELSE pc' = "aborted" /\ UNCHANGED <<vrmVars, polVars, loopVars, callVars>>

\* the logs are exhausted without SigningPolicyInitialized: build
ScanExhausted ==
    /\ pc = "scan"
    /\ ScanBuild(spb)

NextBuild ==
    \/ ScanRandomAcquisitionStarted
    \/ ScanVotePowerBlockSelected
    \/ ScanVoterRegistered
    \/ ScanVoterRegistrationInfo
    \/ ScanVoterRemoved
    \/ ScanSigningPolicyInitialized
    \/ ScanExhausted

SpecBuild == InitBuild /\ [][NextBuild]_vars

(***************************************************************************)
(* The parts of validate_fdc that can raise.  An unsigned_message is the   *)
(* number n_requests (its leading uint16) and the bytes that follow it.    *)
(***************************************************************************)
\* (byte >> shift) & 1 == 1
BitSet(byte, shift) == (byte \div (2 ^ shift)) % 2 = 1

\* the inflation loop reaches `raise ValueError("Invalid payload length.")`:
\* byte j of reversed(votes) has a 1 at a shift whose index i is negative
InflateFails(msg) ==
    \E j \in 0..(Len(msg.votes) - 1), shift \in 0..7 :
        /\ msg.n_requests - 1 - j * 8 - shift < 0
        /\ BitSet(msg.votes[Len(msg.votes) - j], shift)

\* sorted(consensus_bitvote.items(), key=count, reverse=True)[0][0]: the
\* first inserted key among those with the greatest count (the sort is stable)
TopMessage(tally) ==
    tally[CHOOSE i \in 1..Len(tally) :
              /\ \A j \in 1..Len(tally) : tally[j].count <= tally[i].count
              /\ \A j \in 1..(i - 1) : tally[j].count < tally[i].count].message

\* consensus_bitvote[message] += 1 on a defaultdict(int)
TallyAdd(tally, m) ==
    IF \E i \in 1..Len(tally) : tally[i].message = m
    THEN [i \in 1..Len(tally) |->
             IF tally[i].message = m
             THEN [tally[i] EXCEPT !.count = @ + 1] ELSE tally[i]]
    ELSE Append(tally, [message |-> m, count |-> 1])

\* the sort key (x.block, x.log_index)
KeyLess(a, b) ==
    a.block < b.block \/ (a.block = b.block /\ a.log_index < b.log_index)

\* x put into the sorted s behind every element whose key is not greater
InsertSorted(x, s) ==
    LET k == Cardinality({i \in 1..Len(s) : ~KeyLess(x, s[i])}) IN
    SubSeq(s, 1, k) \o <<x>> \o SubSeq(s, k + 1, Len(s))

RECURSIVE SortByKey(_)
SortByKey(s) ==
    IF s = <<>> THEN <<>>
    ELSE InsertSorted(s[Len(s)], SortByKey(SubSeq(s, 1, Len(s) - 1)))

RECURSIVE DedupByData(_, _)
DedupByData(s, seen) ==
    IF s = <<>> THEN <<>>
    ELSE IF Head(s).data \in seen THEN DedupByData(Tail(s), seen)
    ELSE <<Head(s)>> \o DedupByData(Tail(s), seen \cup {Head(s).data})

Reversed(s) == [i \in 1..Len(s) |-> s[Len(s) + 1 - i]]

\* sorted() without the sort by (block, log_index)
SortedRequestsUnsorted(agg) == Reversed(DedupByData(agg, {}))

\* AttestationRequestMapper.sorted
SortedRequests(agg) == Reversed(DedupByData(SortByKey(agg), {}))

\* validate_fdc raises on round r: no consensus_bitvote key to take ([0] of
\* an empty list), an invalid bitvote payload, or the assertion
\* len(sorted_requests) == n_requests
ValidateFdcRaises(r) ==
    \/ r.fdc.consensus_bitvote = <<>>
    \/ InflateFails(TopMessage(r.fdc.consensus_bitvote))
    \/ Len(SortedRequests(r.fdc.requests))
           # TopMessage(r.fdc.consensus_bitvote).n_requests

(***************************************************************************)
(* The ingestion loop (observer_loop).                                     *)
(***************************************************************************)
\* config.identity_address
Tia == "v1"

\* the builder get_signing_policy_events has filled for reward epoch 1 when
\* the registration window held the voters vs, with their own addresses
BootBuilder(vs) ==
    LET addr(c, v) == IF v = "v1" THEN c \o "1" ELSE c \o "2"
        reg(v)  == [kind |-> "VoterRegistered", voter |-> v,
                    signing_policy_address |-> addr("p", v),
                    submit_address |-> addr("s", v),
                    submit_signatures_address |-> SubmitSignaturesAddr(v)]
        info(v) == [kind |-> "VoterRegistrationInfo", voter |-> v,
                    delegation_address |-> addr("d", v)]
    IN  [reward_epoch               |-> 1,
         random_acquisation_started |->
             <<[kind |-> "RandomAcquisitionStarted", reward_epoch_id |-> 1]>>,
         vote_power_block_selected  |->
             <<[kind |-> "VotePowerBlockSelected", reward_epoch_id |-> 1,
                vote_power_block |-> 7]>>,
         voter_registered           |-> [i \in 1..Len(vs) |-> reg(vs[i])],
         voter_registration_info    |-> [i \in 1..Len(vs) |-> info(vs[i])],
         voter_removed              |-> <<>>,
         signing_policy_initialized |->
             <<[kind |-> "SigningPolicyInitialized", reward_epoch_id |-> 1,
                start_voting_round_id |-> 0,
                voters |-> [i \in 1..Len(vs) |-> addr("p", vs[i])],
                weights |-> WeightsFor(vs)]>>]

\* the policies the bootstrap may have built: with and without the monitored
\* identity among the voters
InitialPolicies == {Build(BootBuilder(<<"v1", "v2">>)), Build(BootBuilder(<<"v2">>))}

\* RewardEpoch.next
NextRewardEpoch(r) == r + 1

\* seconds between two consecutive blocks
BlockGaps == {EpochLen \div 2, EpochLen, 2 * EpochLen, 2 * EpochLen + 20}

\* block["timestamp"] of get_block(n): that of a block fetched before, or a
\* new block later than the last one
FetchTimestamps(n) ==
    IF n <= Len(chain) THEN {chain[n]}
    ELSE {chain[Len(chain)] + g : g \in BlockGaps}

Fetched(n, ts) == IF n <= Len(chain) THEN chain ELSE Append(chain, ts)

\* values w.eth.block_number may return
Heads == 1..MaxBlock

\* `start_voting_round_id == voting_epoch`: an int compared with the
\* VotingEpoch object returned by vef.from_timestamp.  The outcomes are False
\* (a VotingEpoch that equals only VotingEpochs) and the equality of the ids
\* (a VotingEpoch whose __eq__ accepts an int); the class is not part of the
\* repository, so both are kept
IntEqualsVotingEpoch(i, ve) == {FALSE, i = ve}

Init ==
    /\ IdleVrm
    /\ signing_policy \in InitialPolicies
    /\ spb = NewBuilder
    /\ chain = <<StartS(1)>>
    /\ block_number = 1
    /\ latest_block = 1
    /\ block = NoneInt
    /\ voting_epoch = FromTimestamp(StartS(1))
    /\ processedMax = NoneInt
    /\ nLogs = 0
    /\ nTxs = 0
    /\ validated = {}
    /\ lastTx = "none"
    /\ IdleCall
    /\ pc = "catchup"

\* one iteration of the loop that waits for the next voting epoch; at its
\* break the VotingRoundManager is constructed
CatchUp ==
    /\ pc = "catchup"
    /\ \E h \in Heads :
        /\ h = block_number \/ block_number < MaxBlock
        /\ latest_block' = h
        /\ IF h = block_number
           THEN UNCHANGED <<vrmVars, chain, block_number, voting_epoch, pc>>
           ELSE \E ts \in FetchTimestamps(block_number + 1) :
                /\ block_number' = block_number + 1
                /\ chain' = Fetched(block_number + 1, ts)
                /\ IF FromTimestamp(ts) = NextOf(voting_epoch)
                   THEN /\ voting_epoch' = NextOf(voting_epoch)
                        /\ finalized' = PreviousOf(NextOf(voting_epoch))
                        /\ pc' = "poll"
                   ELSE UNCHANGED <<voting_epoch, finalized, pc>>
                /\ UNCHANGED <<rounds, returnCount, lastRet, lastDropped,
                               lastTs, lastOp, createdLive>>
    /\ UNCHANGED <<polVars, block, processedMax, nLogs, nTxs, validated,
                   lastTx, callVars>>

\* the top of the main loop: read the head, sleep when the cursor equals it,
\* else run `for block in range(block_number, latest_block)`, whose empty
\* range falls through to `block_number = latest_block`
Poll ==
    /\ pc = "poll"
    /\ \E h \in Heads :
        /\ latest_block' = h
        /\ IF h = block_number
           THEN UNCHANGED <<block_number, block, pc>>
           ELSE IF block_number < h
           THEN block' = block_number /\ pc' = "block"
                /\ UNCHANGED block_number
           ELSE block_number' = h /\ UNCHANGED <<block, pc>>
    /\ UNCHANGED <<callVars, lastTx, vrmVars, polVars, chain, voting_epoch,
                   processedMax,
                   nLogs, nTxs, validated>>

\* the head of the iteration on `block`: fetch it, derive voting_epoch, and
\* the policy rollover
BeginBlock ==
    /\ pc = "block"
    /\ \E ts \in FetchTimestamps(block) :
        /\ chain' = Fetched(block, ts)
        /\ voting_epoch' = FromTimestamp(ts)
        /\ IF spb.signing_policy_initialized = NoEvent
           THEN pc' = "logs" /\ UNCHANGED polVars
           ELSE \E eq \in IntEqualsVotingEpoch(
                     spb.signing_policy_initialized[1].start_voting_round_id,
                     FromTimestamp(ts)) :
           IF eq
           THEN IF BuildOk(spb)
                THEN /\ signing_policy' = Build(spb)
                     /\ spb' = ForEpoch(NewBuilder,
                                        NextRewardEpoch(Build(spb).reward_epoch))
                     /\ pc' = "logs"
                ELSE pc' = "abort_build" /\ UNCHANGED polVars
           ELSE pc' = "logs" /\ UNCHANGED polVars
    /\ processedMax' = Max(processedMax, block)
    /\ UNCHANGED <<callVars, lastTx, vrmVars, block_number, latest_block,
                   block, nLogs, nTxs,
                   validated>>

\* the round vrm.get(v) returns
GetRound(v) == RoundOf(Get(rounds, v), v)

\* a log folded after transactions of the block have been ingested
LogGuardAfterTransactions == pc \in {"logs", "txs"} /\ nLogs < MaxLogs

\* the loop over block_logs runs before the loop over the transactions
LogGuard == pc = "logs" /\ nLogs < MaxLogs

LogFrame == UNCHANGED <<callVars, lastTx, polVars, chain, block_number, latest_block, block,
                        voting_epoch, processedMax, nTxs, validated, pc>>

\* a ProtocolMessageRelayed log of protocol 100 or 200 for round v
LogProtocolMessageRelayed ==
    /\ LogGuard
    /\ \E v \in {voting_epoch - 1}, protocol_id \in {100, 200} :
        LET e == [protocol_id |-> protocol_id, voting_round_id |-> v,
                  timestamp |-> chain[block]]
            r == GetRound(v)
        IN  GetAndSet(v, IF protocol_id = 100
                         THEN [r EXCEPT !.ftso.finalization = <<e>>]
                         ELSE [r EXCEPT !.fdc.finalization = <<e>>])
    /\ nLogs' = nLogs + 1
    /\ LogFrame

\* an AttestationRequest log: appended to the round of the block's epoch
LogAttestationRequest ==
    /\ LogGuard
    /\ \E data \in {"A", "B"} :
        LET e == [data |-> data, block |-> block, log_index |-> nLogs,
                  voting_epoch_id |-> voting_epoch]
            r == GetRound(voting_epoch)
        IN  GetAndSet(voting_epoch,
                      [r EXCEPT !.fdc.requests = Append(@, e)])
    /\ nLogs' = nLogs + 1
    /\ LogFrame

\* the policy events the live loop may meet, all of reward epoch 2
LivePolicyEvents ==
    {[kind |-> "VoterRegistered", voter |-> "v1",
      signing_policy_address |-> "p1", submit_address |-> "s1",
      submit_signatures_address |-> "g1"],
     [kind |-> "SigningPolicyInitialized", reward_epoch_id |-> 2,
      start_voting_round_id |-> 4, voters |-> <<"p1">>, weights |-> <<10>>]}

\* one of the six policy events: spb.add(e), whose assertion ends the loop
LogPolicyEvent ==
    /\ LogGuard
    /\ \E ev \in LivePolicyEvents :
        IF AddOk(spb, ev)
        THEN spb' = Add(spb, ev) /\ pc' = "logs"
        ELSE spb' = spb /\ pc' = "abort_add"
    /\ nLogs' = nLogs + 1
    /\ UNCHANGED <<callVars, lastTx, vrmVars, signing_policy, chain,
                   block_number, latest_block,
                   block, voting_epoch, processedMax, nTxs, validated>>

\* addresses transactions are sent from: the submit-signatures address of
\* v1 and an address of no voter
Senders == {"g1", "x"}

\* the sub-payloads a parsed transaction carries, as <<ftso, fdc>>: the FTSO
\* one alone or both
Protocols == {<<TRUE, FALSE>>, <<TRUE, TRUE>>}

\* function and voting_round_id of a submit transaction in a block of epoch
\* ve: a commit for the running round or a reveal for the one before
SubmitTargets(ve) == {<<"submit_1", ve>>, <<"submit_2", ve - 1>>}

\* unsigned_message values: n_requests and the bytes after it
Messages ==
    {[n_requests |-> 0, votes |-> <<>>],
     [n_requests |-> 1, votes |-> <<1>>],
     [n_requests |-> 1, votes |-> <<2>>]}

\* by_identity[e.identity_address].agg.append(wpp) on a defaultdict
BucketInsert(m, id, wpp) ==
    Put(m, id, Append(IF id \in DOMAIN m THEN m[id] ELSE <<>>, wpp))

TxFrame == UNCHANGED <<callVars, polVars, chain, block_number, latest_block, block,
                       voting_epoch, processedMax, nLogs, validated>>

TxGuard == pc \in {"logs", "txs"} /\ nTxs < MaxTxs

\* a transaction the loop passes over: its sender is in no entity, or its
\* selector is none of the three
TxSkipped ==
    /\ TxGuard
    /\ \E a \in Senders, watched \in BOOLEAN :
        \/ a \notin DOMAIN signing_policy.entity_mapper.by_omni
        \/ ~watched
    /\ nTxs' = nTxs + 1
    /\ lastTx' = "skipped"
    /\ pc' = "txs"
    /\ UNCHANGED vrmVars
    /\ TxFrame

\* the manager after a parse_*_tx call raised, had vrm.get been called for
\* the block's round before the payload was parsed
AfterParseErrorRoundCreated ==
    GetAndSet(voting_epoch, GetRound(voting_epoch))

\* the manager after a parse_*_tx call raised: the call is the first
\* statement of its try block, so nothing was called on vrm
AfterParseError == UNCHANGED vrmVars

\* a transaction of a registered sender calling one of the three watched
\* functions whose payload does not parse: `except Exception: pass`
TxParseFails ==
    /\ TxGuard
    /\ \E a \in Senders \cap DOMAIN signing_policy.entity_mapper.by_omni,
          mode \in {"submit1", "submit2", "submitSignatures"} : TRUE
    /\ AfterParseError
    /\ nTxs' = nTxs + 1
    /\ lastTx' = "parse_failed"
    /\ pc' = "txs"
    /\ TxFrame

\* the insertion keyed by the address the transaction was sent from
InsertedUnderSender(v, bucket, id, wpp, ftso, fdc) ==
    LET r0 == RoundOf(Get(rounds, v), v)
        r1 == IF ftso
              THEN [r0 EXCEPT !.ftso[bucket] =
                       BucketInsert(@, wpp.from_address, wpp)]
              ELSE r0
    IN  IF fdc
        THEN [r1 EXCEPT !.fdc[bucket] = BucketInsert(@, wpp.from_address, wpp)]
        ELSE r1

\* the round of epoch v after the FTSO and FDC sub-payloads of a parsed
\* transaction have been inserted in `bucket` under the sender's identity
Inserted(v, bucket, id, wpp, ftso, fdc) ==
    LET r0 == GetRound(v)
        r1 == IF ftso
              THEN [r0 EXCEPT !.ftso[bucket] = BucketInsert(@, id, wpp)]
              ELSE r0
    IN  IF fdc
        THEN [r1 EXCEPT !.fdc[bucket] = BucketInsert(@, id, wpp)]
        ELSE r1

\* a submit1 or submit2 transaction of a registered sender that parses
TxSubmit ==
    /\ TxGuard
    /\ \E a \in Senders \cap DOMAIN signing_policy.entity_mapper.by_omni,
          target \in SubmitTargets(voting_epoch),
          protocols \in Protocols :
        LET entity == signing_policy.entity_mapper.by_omni[a]
            v   == target[2]
            wpp == [voting_round_id |-> v, timestamp |-> chain[block],
                    from_address |-> a]
        IN  GetAndSet(v, Inserted(v, target[1], entity.identity_address, wpp,
                                  protocols[1], protocols[2]))
    /\ nTxs' = nTxs + 1
    /\ lastTx' = "submit"
    /\ pc' = "txs"
    /\ TxFrame

\* a submitSignatures transaction of a registered sender that parses, for
\* the round before the block's; its FDC sub-payload, of unsigned_message m,
\* also counts in consensus_bitvote
TxSubmitSignatures ==
    /\ TxGuard
    /\ \E a \in Senders \cap DOMAIN signing_policy.entity_mapper.by_omni,
          m \in Messages \cup {NoEvent} :
        LET entity == signing_policy.entity_mapper.by_omni[a]
            v   == voting_epoch - 1
            wpp == [voting_round_id |-> v, timestamp |-> chain[block],
                    from_address |-> a]
            r   == Inserted(v, "submit_signatures", entity.identity_address,
                            wpp, TRUE, m # NoEvent)
        IN  GetAndSet(v, IF m # NoEvent
                         THEN [r EXCEPT !.fdc.consensus_bitvote = TallyAdd(@, m)]
                         ELSE r)
    /\ nTxs' = nTxs + 1
    /\ lastTx' = "submitSignatures"
    /\ pc' = "txs"
    /\ TxFrame

\* the rounds of ret, in order, up to the first on which a validator raises
RECURSIVE ValidatedPrefix(_)
ValidatedPrefix(ret) ==
    IF ret = <<>> \/ ValidateFdcRaises(Head(ret))
    THEN {}
    ELSE {Head(ret).voting_epoch} \cup ValidatedPrefix(Tail(ret))

\* the validation of the rounds ret raises: the monitored identity is not in
\* by_identity_address, or a validator raises on one of the rounds
ValidationRaises(ret) ==
    /\ ret # <<>>
    /\ \/ Tia \notin DOMAIN signing_policy.entity_mapper.by_identity_address
       \/ \E i \in 1..Len(ret) : ValidateFdcRaises(ret[i])

\* the tail of the iteration on `block`: vrm.finalize, the validators on
\* every returned round, then the next block of the range or, after the
\* last, `block_number = latest_block`
FinalizeBlock ==
    /\ pc \in {"logs", "txs"}
    /\ DoFinalize(chain[block])
    /\ LET ret == Finalize(finalized, rounds, chain[block]).ret IN
       IF ValidationRaises(ret)
       THEN /\ pc' = "abort_validate"
            /\ validated' = validated \cup
                   (IF Tia \in DOMAIN signing_policy.entity_mapper.by_identity_address
                    THEN ValidatedPrefix(ret) ELSE {})
            /\ UNCHANGED <<block, block_number>>
       ELSE /\ validated' = validated \cup Range(RetIds(ret))
            /\ IF block + 1 < latest_block
               THEN block' = block + 1 /\ pc' = "block"
                    /\ UNCHANGED block_number
               ELSE block_number' = latest_block /\ pc' = "poll"
                    /\ UNCHANGED block
    /\ UNCHANGED <<callVars, lastTx, polVars, chain, latest_block,
                   voting_epoch, processedMax,
                   nLogs, nTxs>>

Next ==
    \/ CatchUp
    \/ Poll
    \/ BeginBlock
    \/ LogProtocolMessageRelayed
    \/ LogAttestationRequest
    \/ LogPolicyEvent
    \/ TxSkipped
    \/ TxParseFails
    \/ TxSubmit
    \/ TxSubmitSignatures
    \/ FinalizeBlock

Spec == Init /\ [][Next]_vars

(***************************************************************************)
(* One pass of `for block in range(block_number, latest_block)`: the main  *)
(* loop from the first block it processes, after one reading of the head.  *)
(***************************************************************************)
\* catch-up ended at block 2, the first of epoch 2; the head read is 3 or 4;
\* block 2 has been fetched and the rollover test made
InitRange ==
    /\ finalized = PreviousOf(2)
    /\ rounds = <<>>
    /\ returnCount = <<>>
    /\ lastRet = <<>>
    /\ lastDropped = <<>>
    /\ lastTs = 0
    /\ lastOp = "init"
    /\ createdLive = {}
    /\ signing_policy \in InitialPolicies
    /\ spb = NewBuilder
    /\ chain = <<StartS(1), StartS(2)>>
    /\ block_number = 2
    /\ latest_block \in {3, 4}
    /\ block = 2
    /\ voting_epoch = 2
    /\ processedMax = 2
    /\ nLogs = 0
    /\ nTxs = 0
    /\ validated = {}
    /\ lastTx = "none"
    /\ IdleCall
    /\ pc = "logs"

NextRange ==
    \/ BeginBlock
    \/ LogProtocolMessageRelayed
    \/ LogAttestationRequest
    \/ LogPolicyEvent
    \/ TxSkipped
    \/ TxParseFails
    \/ TxSubmit
    \/ TxSubmitSignatures
    \/ FinalizeBlock

SpecRange == InitRange /\ [][NextRange]_vars

(***************************************************************************)
(* Claims about SigningPolicyBuilder.build.                                *)
(***************************************************************************)

\* C9: a built policy has one entity per listed voter, and entities[i] is the
\* entity registered for voters[i]: its signing_policy_address is voters[i]
\* and its normalized_weight is weights[i].
C9_EntitiesMatchVoters ==
    pc = "built" =>
        LET spi == spb.signing_policy_initialized[1]
            es  == signing_policy.entities
        IN  /\ Len(es) = Len(spi.voters)
            /\ \A i \in 1..Len(es) :
                  /\ es[i].signing_policy_address = spi.voters[i]
                  /\ es[i].normalized_weight = spi.weights[i]

\* C10: in a built policy by_omni maps each of the five addresses of every
\* entity of the entities list to that entity.
C10_OmniMapsEveryAddress ==
    pc = "built" =>
        \A i \in 1..Len(signing_policy.entities) :
            \A a \in EntityAddresses(signing_policy.entities[i]) :
                signing_policy.entity_mapper.by_omni[a]
                    = signing_policy.entities[i]

(***************************************************************************)
(* SpecVrm: the manager under any interleaving of get and finalize.        *)
(***************************************************************************)
FinalizeTimestamps ==
    {0} \cup {EndS(k) + d : k \in 0..(MaxEpoch + 2), d \in {0, 1}}

InitVrm ==
    /\ finalized \in 0..1
    /\ rounds = <<>>
    /\ returnCount = <<>>
    /\ lastRet = <<>>
    /\ lastDropped = <<>>
    /\ lastTs = 0
    /\ lastOp = "init"
    /\ createdLive = {}
    /\ spb = NewBuilder
    /\ signing_policy = NoPolicy
    /\ pc = "vrm"
    /\ IdleLoop
    /\ IdleCall

VrmGet ==
    /\ \E v \in EpochIds : DoGet(v)
    /\ UNCHANGED <<polVars, pc, loopVars, callVars>>

VrmFinalize ==
    /\ \E ts \in FinalizeTimestamps : DoFinalize(ts)
    /\ UNCHANGED <<polVars, pc, loopVars, callVars>>

NextVrm == VrmGet \/ VrmFinalize

SpecVrm == InitVrm /\ [][NextVrm]_vars

(***************************************************************************)
(* Claims about the VotingRoundManager.                                    *)
(***************************************************************************)

\* C1: no voting epoch id is returned by two different finalize calls, nor
\* twice in one return list: every id has been returned at most once.
C1_NoRoundReturnedTwice == \A k \in DOMAIN returnCount : returnCount[k] <= 1

\* C1 witness: a round that was returned earlier was created again by a late
\* get and the following finalize popped it without returning it.
C1_Witness ==
    /\ lastOp = "finalize"
    /\ \E k \in Range(lastDropped) : Returned(k) = 1

\* C2: finalized never decreases in any step, and get leaves it unchanged.
C2_FinalizedMonotonic ==
    [][/\ finalized' >= finalized
       /\ (lastOp' = "get" => finalized' = finalized)]_vars

\* C2 witness: a finalize call returned rounds and advanced finalized past
\* every initial value.
C2_Witness == lastOp = "finalize" /\ lastRet # <<>> /\ finalized >= 2

\* C3 as stated: between calls every key of rounds has id > finalized.
C3_AllLiveAboveFinalized == \A k \in Keys(rounds) : k > finalized

\* C3 amended: immediately after a finalize call every key of rounds has
\* id > finalized (a get for an id <= finalized adds such a key, which stays
\* until the next finalize call).
C3_LiveAboveFinalizedAfterFinalize ==
    lastOp = "finalize" => \A k \in Keys(rounds) : k > finalized

\* C3 witness: a finalize call popped a late round and left others alive.
C3_Witness == lastOp = "finalize" /\ lastDropped # <<>> /\ rounds # <<>>

\* C4: a round created while its id > finalized is never removed without
\* having been returned, and once a finalize call with a timestamp greater
\* than the end of the round's next epoch has been made it has been returned.
C4_LiveRoundEventuallyReturned ==
    \A k \in createdLive :
        /\ (k \notin Keys(rounds) => Returned(k) >= 1)
        /\ (lastOp = "finalize" /\ EndS(NextOf(k)) < lastTs
               => Returned(k) >= 1)

(***************************************************************************)
(* Claims about the ingestion loop.                                        *)
(***************************************************************************)
\* C5: with the monitored identity in the signing policy, the validation of
\* the rounds vrm.finalize returned never aborts the loop, and every round
\* finalize has returned has been through both validators.
C5_ValidationNeverAborts ==
    Tia \in DOMAIN signing_policy.entity_mapper.by_identity_address
        => /\ pc # "abort_validate"
           /\ \A k \in DOMAIN returnCount : Returned(k) >= 1 => k \in validated

\* C6: the cursor block_number never moves backwards, and the main loop
\* begins a block only if it is the first it processes or the successor of
\* the greatest block number processed so far.
C6_BlocksStrictlyAscending ==
    [][/\ block_number' >= block_number
       /\ (pc = "block" /\ pc' # "block")
              => (processedMax = NoneInt \/ block = processedMax + 1)]_vars

\* C7: the rollover step of a block's iteration replaces signing_policy by
\* spb.build() and spb by a fresh builder for the next reward epoch when spb
\* holds a SigningPolicyInitialized event whose start_voting_round_id is the
\* id of the block's voting epoch, and changes neither of them otherwise.
C7_RolloverAtStartRound ==
    [][(pc = "block" /\ pc' # "block") =>
          IF /\ spb.signing_policy_initialized # NoEvent
             /\ spb.signing_policy_initialized[1].start_voting_round_id
                    = voting_epoch'
          THEN /\ BuildOk(spb)
               /\ signing_policy' = Build(spb)
               /\ spb' = ForEpoch(NewBuilder,
                                  NextRewardEpoch(Build(spb).reward_epoch))
          ELSE UNCHANGED <<signing_policy, spb>>]_vars

\* C8: at the start of every block iteration of the main loop the reward
\* epoch of spb is set and is the one after signing_policy's.
C8_BuilderIsForNextRewardEpoch ==
    pc = "block" =>
        /\ spb.reward_epoch # NoneInt
        /\ spb.reward_epoch = NextRewardEpoch(signing_policy.reward_epoch)

(***************************************************************************)
(* WParsedPayloadList.extract_latest, called on its own.  An optional      *)
(* value is <<>> for None and <<x>> for x.                                 *)
(***************************************************************************)
\* r.start <= wtx.timestamp < r.stop, with the stop bound included
InRangeClosed(ts, r) == r.start <= ts /\ ts <= r.stop

\* r.start <= wtx.timestamp < r.stop
InRange(ts, r) == r.start <= ts /\ ts < r.stop

\* the loop with `>=` in place of `>`: the last of the latest wins
RECURSIVE ExtractFromLastWins(_, _, _)
ExtractFromLastWins(agg, r, latest) ==
    IF agg = <<>> THEN latest
    ELSE LET wpp == Head(agg) IN
         ExtractFromLastWins(Tail(agg), r,
             IF ~InRange(wpp.timestamp, r) THEN latest
             ELSE IF latest = <<>> \/ wpp.timestamp >= latest[1].timestamp
                  THEN <<wpp>>
                  ELSE latest)

\* the loop of extract_latest over the rest of agg, `latest` so far
RECURSIVE ExtractFrom(_, _, _)
ExtractFrom(agg, r, latest) ==
    IF agg = <<>> THEN latest
    ELSE LET wpp == Head(agg) IN
         ExtractFrom(Tail(agg), r,
             IF ~InRange(wpp.timestamp, r) THEN latest
             ELSE IF latest = <<>> \/ wpp.timestamp > latest[1].timestamp
                  THEN <<wpp>>
                  ELSE latest)

ExtractLatest(agg, r) == ExtractFrom(agg, r, <<>>)

Times == 0..MaxTime

\* range(start, stop) objects, the empty ones included
TimeRanges == [start : Times, stop : Times]

InitExtract ==
    /\ IdleVrm
    /\ IdleLoop
    /\ spb = NewBuilder
    /\ signing_policy = NoPolicy
    /\ arg \in [agg : {<<>>}, r : TimeRanges]
    /\ res = <<>>
    /\ pc = "extract"

\* agg.append(wpp): the k-th payload stored, of timestamp ts
ExtractAppend ==
    /\ pc \in {"extract", "extracted"}
    /\ Len(arg.agg) < MaxPayloads
    /\ \E ts \in Times :
        arg' = [arg EXCEPT !.agg =
                   Append(@, [id |-> Len(arg.agg) + 1, timestamp |-> ts])]
    /\ res' = <<>>
    /\ pc' = "extract"
    /\ UNCHANGED <<vrmVars, polVars, loopVars>>

\* extract_latest(r)
ExtractCall ==
    /\ pc = "extract"
    /\ res' = ExtractLatest(arg.agg, arg.r)
    /\ pc' = "extracted"
    /\ UNCHANGED <<vrmVars, polVars, loopVars, arg>>

NextExtract == ExtractAppend \/ ExtractCall

SpecExtract == InitExtract /\ [][NextExtract]_vars

\* C11: extract_latest(r) leaves the list as it was; it returns None iff no
\* stored payload has r.start <= timestamp < r.stop, and otherwise a stored
\* payload of that range whose timestamp is >= that of every stored payload
\* of the range.
C11_ExtractLatestInRangeMax ==
    [][pc' = "extracted" =>
          /\ arg' = arg
          /\ LET agg == arg.agg
                 inside == {i \in 1..Len(agg) :
                               /\ arg.r.start <= agg[i].timestamp
                               /\ agg[i].timestamp < arg.r.stop}
             IN  /\ res' = <<>> <=> inside = {}
                 /\ res' # <<>> =>
                        \E i \in inside :
                            /\ res'[1] = agg[i]
                            /\ \A j \in inside :
                                   agg[j].timestamp <= agg[i].timestamp]_vars

\* a payload was returned although another one sits exactly at r.stop and
\* the returned one sits at r.start
C11_Witness ==
    /\ pc = "extracted"
    /\ res # <<>>
    /\ res[1].timestamp = arg.r.start
    /\ \E i \in 1..Len(arg.agg) : arg.agg[i].timestamp = arg.r.stop

(***************************************************************************)
(* AttestationRequestMapper.sorted, called on its own.                     *)
(***************************************************************************)
\* the AttestationRequest logs that may be appended
Requests == [data : {"A", "B"}, block : {1, 2}, log_index : {0, 1}]

InitSorted ==
    /\ IdleVrm
    /\ IdleLoop
    /\ spb = NewBuilder
    /\ signing_policy = NoPolicy
    /\ arg = [agg |-> <<>>]
    /\ res = <<>>
    /\ pc = "requests"

\* requests.agg.append(e)
SortedAppend ==
    /\ pc \in {"requests", "sorted"}
    /\ Len(arg.agg) < MaxRequests
    /\ \E e \in Requests : arg' = [arg EXCEPT !.agg = Append(@, e)]
    /\ res' = <<>>
    /\ pc' = "requests"
    /\ UNCHANGED <<vrmVars, polVars, loopVars>>

\* requests.sorted()
SortedCall ==
    /\ pc = "requests"
    /\ res' = SortedRequests(arg.agg)
    /\ pc' = "sorted"
    /\ UNCHANGED <<vrmVars, polVars, loopVars, arg>>

NextSorted == SortedAppend \/ SortedCall

SpecSorted == InitSorted /\ [][NextSorted]_vars

\* C12: sorted() leaves agg as it was and returns one request per distinct
\* data value of agg, each being a request of agg of the smallest
\* (block, log_index) among those of its data, the list being in descending
\* (block, log_index) order.
C12_SortedFirstPerDataDescending ==
    [][pc' = "sorted" =>
          /\ arg' = arg
          /\ LET agg == arg.agg
                 out == res'
                 leq(a, b) == \/ a.block < b.block
                              \/ a.block = b.block /\ a.log_index <= b.log_index
             IN  /\ {out[i].data : i \in 1..Len(out)}
                        = {agg[i].data : i \in 1..Len(agg)}
                 /\ \A i, j \in 1..Len(out) :
                        i # j => out[i].data # out[j].data
                 /\ \A i \in 1..Len(out) :
                        /\ \E j \in 1..Len(agg) : agg[j] = out[i]
                        /\ \A j \in 1..Len(agg) :
                               agg[j].data = out[i].data => leq(out[i], agg[j])
                 /\ \A i, j \in 1..Len(out) :
                        i < j => leq(out[j], out[i])]_vars

\* sorted() returned two requests, after the later log of a data value was
\* appended before the earlier one
C12_Witness ==
    /\ pc = "sorted"
    /\ Len(res) = 2
    /\ \E i, j \in 1..Len(arg.agg) :
        /\ i < j
        /\ arg.agg[i].data = arg.agg[j].data
        /\ KeyLess(arg.agg[j], arg.agg[i])

InitRangeReached ==
    /\ pc = "logs" /\ nLogs = 0 /\ nTxs = 0 /\ block = 2 /\ processedMax = 2
    /\ chain = <<StartS(1), StartS(2)>> /\ latest_block \in {3, 4}
    /\ finalized = PreviousOf(2) /\ rounds = <<>> /\ lastOp = "init"

(***************************************************************************)
(* validate_ftso.  A submit1 payload is its commit_hash, a submit2 payload *)
(* its values (NoneInt for None) and reveal_hash, the commit_hash(...)     *)
(* value the validator rebuilds from it, and a submitSignatures payload    *)
(* the address its signature recovers to for the round's finalization.     *)
(***************************************************************************)
\* VotingEpoch.reveal_deadline()
RevealDeadline(id) == StartS(id) + 45

\* by_identity[identity_address].agg of a defaultdict
Bucket(m, id) == IF id \in DOMAIN m THEN m[id] ELSE <<>>

\* sig_grace without the finalization
SigGraceWithoutFinalization(epoch, finalization) ==
    StartS(NextOf(epoch)) + 55 + 1

\* max(epoch.next.start_s + 55 + 1,
\*     (finalization and finalization.timestamp + 1) or 0)
SigGrace(epoch, finalization) ==
    Max(StartS(NextOf(epoch)) + 55 + 1,
        IF finalization # NoEvent THEN finalization[1].timestamp + 1 ELSE 0)

\* mb.build(level, message); index is the request index a message cites
IssueAt(level, message, index) ==
    [level |-> level, message |-> message, index |-> index]

Issue(level, message) == IssueAt(level, message, NoneInt)

\* the issue is appended when cond holds
IssueIf(cond, level, message) ==
    IF cond THEN <<Issue(level, message)>> ELSE <<>>

\* `s1 and not s2`, without the test of s1
RevealOffenceWithoutSubmit1(s1, s2) == ~s2

\* `s1 and not s2`
RevealOffence(s1, s2) == s1 /\ ~s2

\* the commit hash test, failing whatever the two hashes are
CommitMismatchAlways(submit_1, submit_2) == TRUE

\* submit_1.parsed_payload.payload.commit_hash.hex() != hashed
CommitMismatch(submit_1, submit_2) ==
    submit_1.commit_hash # submit_2.reveal_hash

\* [str(i) for i, v in enumerate(values) if v is None], non-empty
HasNoneValue(values) == \E i \in 1..Len(values) : values[i] = NoneInt

ValidateFtso(round, entity) ==
    LET epoch  == round.voting_epoch
        n      == NextOf(epoch)
        ftso   == round.ftso
        finalization == ftso.finalization
        id     == entity.identity_address
        submit_1 == ExtractLatest(Bucket(ftso.submit_1, id),
                        [start |-> StartS(epoch), stop |-> EndS(epoch)])
        submit_2 == ExtractLatest(Bucket(ftso.submit_2, id),
                        [start |-> StartS(n), stop |-> RevealDeadline(n)])
        submit_sig == ExtractLatest(Bucket(ftso.submit_signatures, id),
                        [start |-> RevealDeadline(n),
                         stop  |-> SigGrace(epoch, finalization)])
        s1 == submit_1 # <<>>
        s2 == submit_2 # <<>>
        ss == submit_sig # <<>>
    IN  IssueIf(~s1, "INFO", "no submit1 transaction")
        \o IssueIf(RevealOffence(s1, s2), "CRITICAL",
                   "no submit2 transaction, causing reveal offence")
        \o IssueIf(s2 /\ HasNoneValue(submit_2[1].values), "WARNING",
                   "submit 2 had 'None' on indices")
        \o IssueIf(s1 /\ s2 /\ CommitMismatch(submit_1[1], submit_2[1]),
                   "CRITICAL",
                   "commit hash and reveal didn't match, causing reveal offence")
        \o IssueIf(~ss, "ERROR", "no submit signatures transaction")
        \o IssueIf(finalization # NoEvent /\ ss
                       /\ submit_sig[1].signer # entity.signing_policy_address,
                   "ERROR",
                   "submit signatures signature doesn't match finalization")

\* the round under validation and the epoch after it
E == 1

N == NextOf(E)

\* the monitored entity, of a policy with the voters v1 and v2
MonitoredEntity ==
    Build(BootBuilder(<<"v1", "v2">>)).entity_mapper.by_identity_address[Tia]

Identities == {"v1", "v2"}

\* block timestamps around the three windows of round E
Submit1Times == {StartS(E), EndS(E) - 1, EndS(E)}

Submit2Times == {StartS(N), RevealDeadline(N) - 1, RevealDeadline(N)}

SignatureTimes ==
    {RevealDeadline(N) - 1, RevealDeadline(N), StartS(N) + 55,
     StartS(N) + 55 + 1, EndS(N)}

FinalizationTimes == {RevealDeadline(N) + 4, EndS(N)}

FtsoSubmit1Payloads ==
    [timestamp : Submit1Times, commit_hash : {"h1", "h2"}]

FtsoSubmit2Payloads ==
    [timestamp : Submit2Times, reveal_hash : {"h1"},
     values : {<<5, 7>>, <<5, NoneInt>>}]

SignaturePayloads == [timestamp : SignatureTimes, signer : {"p1", "p2"}]

PayloadCount(protocol) ==
    LET size(m) == IF DOMAIN m = {} THEN 0
                   ELSE LET f[S \in SUBSET DOMAIN m] ==
                                IF S = {} THEN 0
                                ELSE LET x == CHOOSE y \in S : TRUE
                                     IN  Len(m[x]) + f[S \ {x}]
                        IN  f[DOMAIN m]
    IN  size(protocol.submit_1) + size(protocol.submit_2)
            + size(protocol.submit_signatures)

InitFtso ==
    /\ IdleVrm
    /\ IdleLoop
    /\ spb = NewBuilder
    /\ signing_policy = NoPolicy
    /\ arg = [round |-> NewRound(E), entity |-> MonitoredEntity]
    /\ res = <<>>
    /\ pc = "ftso"

FtsoFrame ==
    res' = <<>> /\ pc' = "ftso" /\ UNCHANGED <<vrmVars, polVars, loopVars>>

FtsoGuard == pc = "ftso" /\ PayloadCount(arg.round.ftso) < MaxPayloads

\* ftso.insert_submit_1(entity, parsed.ftso, wtx)
FtsoInsertSubmit1 ==
    /\ FtsoGuard
    /\ \E id \in Identities, wpp \in FtsoSubmit1Payloads :
        arg' = [arg EXCEPT !.round.ftso.submit_1 = BucketInsert(@, id, wpp)]
    /\ FtsoFrame

\* ftso.insert_submit_2(entity, parsed.ftso, wtx)
FtsoInsertSubmit2 ==
    /\ FtsoGuard
    /\ \E id \in Identities, wpp \in FtsoSubmit2Payloads :
        arg' = [arg EXCEPT !.round.ftso.submit_2 = BucketInsert(@, id, wpp)]
    /\ FtsoFrame

\* ftso.insert_submit_signatures(entity, parsed.ftso, wtx)
FtsoInsertSubmitSignatures ==
    /\ FtsoGuard
    /\ \E id \in Identities, wpp \in SignaturePayloads :
        arg' = [arg EXCEPT !.round.ftso.submit_signatures =
                               BucketInsert(@, id, wpp)]
    /\ FtsoFrame

\* voting_round.ftso.finalization = e
FtsoFinalization ==
    /\ pc = "ftso"
    /\ \E ts \in FinalizationTimes :
        arg' = [arg EXCEPT !.round.ftso.finalization =
                               <<[protocol_id |-> 100, voting_round_id |-> E,
                                  timestamp |-> ts]>>]
    /\ FtsoFrame

\* validate_ftso(r, entity, config) on the finalized round
FtsoValidate ==
    /\ pc = "ftso"
    /\ res' = ValidateFtso(arg.round, arg.entity)
    /\ pc' = "ftso_validated"
    /\ UNCHANGED <<vrmVars, polVars, loopVars, arg>>

NextFtso ==
    \/ FtsoInsertSubmit1
    \/ FtsoInsertSubmit2
    \/ FtsoInsertSubmitSignatures
    \/ FtsoFinalization
    \/ FtsoValidate

SpecFtso == InitFtso /\ [][NextFtso]_vars

\* the payloads of the monitored identity in a bucket whose timestamp lies
\* in [start, stop)
InWindow(m, start, stop) ==
    {i \in 1..Len(Bucket(m, Tia)) :
        /\ start <= Bucket(m, Tia)[i].timestamp
        /\ Bucket(m, Tia)[i].timestamp < stop}

\* the number of issues of a list that carry the message
CountOf(issues, message) ==
    Cardinality({i \in 1..Len(issues) : issues[i].message = message})

\* C14: when the submit1, submit2 and submitSignatures selected in their
\* windows exist, the submit2 has no None value and rebuilds the commit
\* hash of the submit1, and the round has a finalization for which the
\* signature recovers to the entity's signing policy address, validate_ftso
\* returns no issue; and whenever the two hashes are equal there is no
\* commit-mismatch issue.
C14_FtsoHappyRoundNoIssues ==
    pc = "ftso_validated" =>
        LET ftso == arg.round.ftso
            mine(m) == Bucket(m, Tia)
            s1 == ExtractLatest(mine(ftso.submit_1),
                      [start |-> StartS(E), stop |-> EndS(E)])
            s2 == ExtractLatest(mine(ftso.submit_2),
                      [start |-> StartS(N), stop |-> StartS(N) + 45])
            ss == ExtractLatest(mine(ftso.submit_signatures),
                      [start |-> StartS(N) + 45,
                       stop  |-> SigGrace(E, ftso.finalization)])
            equal == s1 # <<>> /\ s2 # <<>>
                         /\ s1[1].commit_hash = s2[1].reveal_hash
        IN  /\ ( /\ equal
                 /\ \A i \in 1..Len(s2[1].values) : s2[1].values[i] # NoneInt
                 /\ ss # <<>>
                 /\ ftso.finalization # NoEvent
                 /\ ss[1].signer = arg.entity.signing_policy_address )
               => res = <<>>
            /\ equal =>
                   CountOf(res, "commit hash and reveal didn't match, causing reveal offence") = 0

\* a round with a submit1, a submit2, a submitSignatures and a finalization
\* was validated without an issue
C14_Witness ==
    /\ pc = "ftso_validated"
    /\ res = <<>>
    /\ arg.round.ftso.finalization # NoEvent
    /\ PayloadCount(arg.round.ftso) = 3

\* C15: validate_ftso returns the CRITICAL issue "no submit2 transaction,
\* causing reveal offence" once when the monitored identity has a submit1 in
\* [e.start_s, e.end_s) and no submit2 in [n.start_s, n.reveal_deadline()),
\* and not at all otherwise; without a submit1 it returns the INFO issue "no
\* submit1 transaction".
C15_RevealOffenceIffSubmit1WithoutSubmit2 ==
    pc = "ftso_validated" =>
        LET ftso == arg.round.ftso
            s1 == InWindow(ftso.submit_1, StartS(E), EndS(E)) # {}
            s2 == InWindow(ftso.submit_2, StartS(N), StartS(N) + 45) # {}
            offence == "no submit2 transaction, causing reveal offence"
        IN  /\ CountOf(res, offence) = IF s1 /\ ~s2 THEN 1 ELSE 0
            /\ \A i \in 1..Len(res) :
                   res[i].message = offence => res[i].level = "CRITICAL"
            /\ ~s1 => CountOf(res, "no submit1 transaction") = 1

\* the offence was reported for a round whose only submit2 of the monitored
\* identity sits exactly at n.reveal_deadline()
C15_Witness ==
    /\ pc = "ftso_validated"
    /\ CountOf(res, "no submit2 transaction, causing reveal offence") = 1
    /\ \E i \in 1..Len(Bucket(arg.round.ftso.submit_2, Tia)) :
           Bucket(arg.round.ftso.submit_2, Tia)[i].timestamp = StartS(N) + 45

(***************************************************************************)
(* validate_fdc.  An FDC submit2 payload is its number_of_requests and     *)
(* bit_vector; bit i of the code (counted from 0) is element i + 1 here.   *)
(***************************************************************************)
\* the inflation with bit `shift` of byte j stored at index j * 8 + shift
InflateLowIndexFirst(msg) ==
    [k \in 1..msg.n_requests |->
        LET j == (k - 1) \div 8
        IN  IF j < Len(msg.votes)
            THEN BitSet(msg.votes[Len(msg.votes) - j], (k - 1) % 8)
            ELSE FALSE]

\* consensus_bitvote after the inflation loop, when it does not raise: bit
\* `shift` of byte j of reversed(votes) is stored at index
\* i = n_requests - 1 - j * 8 - shift, the other indices stay False
Inflate(msg) ==
    [k \in 1..msg.n_requests |->
        LET p == msg.n_requests - 1 - (k - 1)
            j == p \div 8
        IN  IF j < Len(msg.votes)
            THEN BitSet(msg.votes[Len(msg.votes) - j], p % 8)
            ELSE FALSE]

Min(a, b) == IF a <= b THEN a ELSE b

\* idx = n_requests - 1 - i, replaced by i
CitedIndexSame(n_requests, i) == i

\* idx = n_requests - 1 - i
CitedIndex(n_requests, i) == n_requests - 1 - i

NotConfirmed == "submit2 didn't confirm request that was part of consensus"

\* the issues of the loop over zip(sorted_requests, bit_vector,
\* consensus_bitvote), from its element i (counted from 0) on
RECURSIVE ConfirmIssues(_, _, _, _, _)
ConfirmIssues(i, len, bit_vector, consensus, n_requests) ==
    IF i >= len THEN <<>>
    ELSE (IF consensus[i + 1] /\ ~bit_vector[i + 1]
          THEN <<IssueAt("ERROR", NotConfirmed, CitedIndex(n_requests, i))>>
          ELSE <<>>)
         \o ConfirmIssues(i + 1, len, bit_vector, consensus, n_requests)

\* `s2 and expected_signatures and not ssd`, without expected_signatures
SignatureOffenceUnexpected(s2, expected_signatures, ssd) == s2 /\ ~ssd

\* `s2 and expected_signatures and not ssd`
SignatureOffence(s2, expected_signatures, ssd) ==
    s2 /\ expected_signatures /\ ~ssd

\* the issues validate_fdc returns, when it does not raise
FdcIssues(round, entity) ==
    LET epoch  == round.voting_epoch
        n      == NextOf(epoch)
        fdc    == round.fdc
        finalization == fdc.finalization
        id     == entity.identity_address
        submit_2 == ExtractLatest(Bucket(fdc.submit_2, id),
                        [start |-> StartS(n), stop |-> RevealDeadline(n)])
        submit_sig == ExtractLatest(Bucket(fdc.submit_signatures, id),
                        [start |-> RevealDeadline(n),
                         stop  |-> SigGrace(epoch, finalization)])
        submit_sig_deadline ==
            ExtractLatest(Bucket(fdc.submit_signatures, id),
                [start |-> RevealDeadline(n), stop |-> EndS(n)])
        top == TopMessage(fdc.consensus_bitvote)
        n_requests == top.n_requests
        consensus_bitvote == Inflate(top)
        sorted_requests == SortedRequests(fdc.requests)
        s2  == submit_2 # <<>>
        ss  == submit_sig # <<>>
        ssd == submit_sig_deadline # <<>>
        matches == submit_2[1].number_of_requests = Len(sorted_requests)
        confirm == ConfirmIssues(0,
                       Min(Len(sorted_requests),
                           Min(Len(submit_2[1].bit_vector),
                               Len(consensus_bitvote))),
                       submit_2[1].bit_vector, consensus_bitvote, n_requests)
        expected_signatures == ~s2 \/ (matches /\ confirm = <<>>)
    IN  IssueIf(~s2, "ERROR", "no submit2 transaction")
        \o (IF ~s2 THEN <<>>
            ELSE IF ~matches
            THEN <<Issue("ERROR",
                     "submit 2 length didn't match number of requests in round")>>
            ELSE confirm)
        \o IssueIf(SignatureOffence(s2, expected_signatures, ssd), "CRITICAL",
                   "no submit signatures transaction, causing reveal offence")
        \o IssueIf(s2 /\ ssd /\ ~ss, "ERROR",
                   "no submit signatures transaction during grace period, causing loss of rewards")
        \o IssueIf(~s2 /\ ~ss, "ERROR", "no submit signatures transaction")
        \o IssueIf(finalization # NoEvent /\ ss
                       /\ submit_sig[1].signer # entity.signing_policy_address,
                   "ERROR",
                   "submit signatures signature doesn't match finalization")

\* validate_fdc: the exception leaves the caller without a list of issues
ValidateFdc(round, entity) ==
    IF ValidateFdcRaises(round)
    THEN [raised |-> TRUE, issues |-> <<>>]
    ELSE [raised |-> FALSE, issues |-> FdcIssues(round, entity)]

(***************************************************************************)
(* validate_fdc on rounds that differ in the consensus bitvote and in the  *)
(* bit vector of the monitored identity's submit2.                         *)
(***************************************************************************)
\* the k first AttestationRequest logs of a block, of distinct data
RequestLogs(k) ==
    [i \in 1..k |-> [data |-> <<"request", i>>, block |-> 2,
                     log_index |-> i - 1]]

InitBits ==
    /\ IdleVrm
    /\ IdleLoop
    /\ spb = NewBuilder
    /\ signing_policy = NoPolicy
    /\ \E k \in 0..MaxRequests :
        arg = [round  |-> [NewRound(E) EXCEPT !.fdc.requests = RequestLogs(k)],
               entity |-> MonitoredEntity]
    /\ res = <<>>
    /\ pc = "bits"

BitsFrame ==
    res' = <<>> /\ pc' = "bits" /\ UNCHANGED <<vrmVars, polVars, loopVars>>

\* a submitSignatures transaction of voter v2, the first of the round, whose
\* unsigned_message has one byte of votes for the requests of the round
BitsConsensus ==
    /\ pc = "bits"
    /\ arg.round.fdc.consensus_bitvote = <<>>
    /\ \E byte \in 0..(2 ^ Len(arg.round.fdc.requests) - 1) :
        LET m   == [n_requests |-> Len(arg.round.fdc.requests),
                    votes |-> <<byte>>]
            wpp == [timestamp |-> RevealDeadline(N), signer |-> "p2"]
        IN  arg' = [arg EXCEPT
                       !.round.fdc.submit_signatures =
                           BucketInsert(@, "v2", wpp),
                       !.round.fdc.consensus_bitvote = TallyAdd(@, m)]
    /\ BitsFrame

\* the submit2 of the monitored identity, inside its window, for as many
\* requests as the round has or for one more
BitsSubmit2 ==
    /\ pc = "bits"
    /\ Bucket(arg.round.fdc.submit_2, Tia) = <<>>
    /\ \E k \in {Len(arg.round.fdc.requests), Len(arg.round.fdc.requests) + 1} :
       \E bit_vector \in [1..k -> BOOLEAN] :
        arg' = [arg EXCEPT !.round.fdc.submit_2 =
                   BucketInsert(@, Tia,
                       [timestamp |-> StartS(N), number_of_requests |-> k,
                        bit_vector |-> bit_vector])]
    /\ BitsFrame

\* validate_fdc(r, entity, config)
BitsValidate ==
    /\ pc = "bits"
    /\ res' = ValidateFdc(arg.round, arg.entity)
    /\ pc' = "bits_validated"
    /\ UNCHANGED <<vrmVars, polVars, loopVars, arg>>

NextBits == BitsConsensus \/ BitsSubmit2 \/ BitsValidate

SpecBits == InitBits /\ [][NextBits]_vars

\* C17: when validate_fdc returns for a round of n deduplicated requests
\* whose submit2 has number_of_requests = n, it returns one "didn't confirm"
\* ERROR citing n - 1 - i for each i in [0, n) whose consensus bit is true
\* and whose submitted bit is false, and no other such issue.
C17_NonConfirmationCitesMirroredIndex ==
    (pc = "bits_validated" /\ ~res.raised
         /\ Bucket(arg.round.fdc.submit_2, Tia) # <<>>) =>
        LET n        == Len(arg.round.fdc.requests)
            submit_2 == Bucket(arg.round.fdc.submit_2, Tia)[1]
            byte     == arg.round.fdc.consensus_bitvote[1].message.votes[1]
            cbit(i)  == (byte \div (2 ^ (n - 1 - i))) % 2 = 1
            missed   == {i \in 0..(n - 1) :
                            cbit(i) /\ ~submit_2.bit_vector[i + 1]}
            cited(x) == {k \in 1..Len(res.issues) :
                            /\ res.issues[k].message = NotConfirmed
                            /\ res.issues[k].index = x}
        IN  submit_2.number_of_requests = n =>
                /\ \A i \in missed : Cardinality(cited(n - 1 - i)) = 1
                /\ CountOf(res.issues, NotConfirmed) = Cardinality(missed)
                /\ \A k \in 1..Len(res.issues) :
                       res.issues[k].message = NotConfirmed
                           => res.issues[k].level = "ERROR"

\* three requests, consensus [true, true, false], submitted
\* [false, true, false]: one ERROR, citing index 2
C17_Witness ==
    /\ pc = "bits_validated"
    /\ ~res.raised
    /\ Len(arg.round.fdc.requests) = 3
    /\ Bucket(arg.round.fdc.submit_2, Tia) # <<>>
    /\ arg.round.fdc.consensus_bitvote[1].message.votes = <<6>>
    /\ Bucket(arg.round.fdc.submit_2, Tia)[1].bit_vector = <<FALSE, TRUE, FALSE>>
    /\ CountOf(res.issues, NotConfirmed) = 1
    /\ \E k \in 1..Len(res.issues) :
           res.issues[k].message = NotConfirmed /\ res.issues[k].index = 2

(***************************************************************************)
(* validate_fdc on rounds that differ in which transactions were ingested  *)
(* and when.                                                               *)
(***************************************************************************)
\* the signing policy address of a voter of the policy
SignerOf(id) == IF id = "v1" THEN "p1" ELSE "p2"

\* FDC submit2 payloads of the monitored identity, and one of voter v2
FdcSubmit2Payloads(id) ==
    [timestamp : IF id = Tia THEN {StartS(N), RevealDeadline(N)}
                 ELSE {StartS(N)},
     number_of_requests : {0},
     bit_vector : {<<>>}]
    \cup
    [timestamp : IF id = Tia THEN {StartS(N), RevealDeadline(N)}
                 ELSE {StartS(N)},
     number_of_requests : {1},
     bit_vector : IF id = Tia THEN {<<TRUE>>, <<FALSE>>} ELSE {<<TRUE>>}]

\* block timestamps of the submitSignatures transactions of a voter
FdcSignatureTimes(id) ==
    IF id = Tia THEN SignatureTimes ELSE {RevealDeadline(N)}

InitFdc ==
    /\ IdleVrm
    /\ IdleLoop
    /\ spb = NewBuilder
    /\ signing_policy = NoPolicy
    /\ arg = [round |-> NewRound(E), entity |-> MonitoredEntity]
    /\ res = <<>>
    /\ pc = "fdc"

FdcFrame ==
    res' = <<>> /\ pc' = "fdc" /\ UNCHANGED <<vrmVars, polVars, loopVars>>

FdcGuard == pc = "fdc" /\ PayloadCount(arg.round.fdc) < MaxPayloads

\* vrm.get(e.voting_epoch_id).fdc.requests.agg.append(e)
FdcRequest ==
    /\ pc = "fdc"
    /\ Len(arg.round.fdc.requests) < MaxRequests
    /\ arg' = [arg EXCEPT !.round.fdc.requests =
                   RequestLogs(Len(arg.round.fdc.requests) + 1)]
    /\ FdcFrame

\* fdc.insert_submit_2(entity, parsed.fdc, wtx)
FdcInsertSubmit2 ==
    /\ FdcGuard
    /\ \E id \in Identities : \E wpp \in FdcSubmit2Payloads(id) :
        arg' = [arg EXCEPT !.round.fdc.submit_2 = BucketInsert(@, id, wpp)]
    /\ FdcFrame

\* vr.fdc.insert_submit_signatures(entity, parsed.fdc, wtx) and
\* vr.fdc.consensus_bitvote[unsigned_message] += 1
FdcInsertSubmitSignatures ==
    /\ FdcGuard
    /\ \E id \in Identities, m \in Messages :
       \E ts \in FdcSignatureTimes(id) :
        arg' = [arg EXCEPT
                   !.round.fdc.submit_signatures =
                       BucketInsert(@, id, [timestamp |-> ts,
                                            signer |-> SignerOf(id)]),
                   !.round.fdc.consensus_bitvote = TallyAdd(@, m)]
    /\ FdcFrame

\* voting_round.fdc.finalization = e
FdcFinalization ==
    /\ pc = "fdc"
    /\ \E ts \in FinalizationTimes :
        arg' = [arg EXCEPT !.round.fdc.finalization =
                               <<[protocol_id |-> 200, voting_round_id |-> E,
                                  timestamp |-> ts]>>]
    /\ FdcFrame

\* validate_fdc(r, entity, config) on the finalized round
FdcValidate ==
    /\ pc = "fdc"
    /\ res' = ValidateFdc(arg.round, arg.entity)
    /\ pc' = "fdc_validated"
    /\ UNCHANGED <<vrmVars, polVars, loopVars, arg>>

NextFdc ==
    \/ FdcRequest
    \/ FdcInsertSubmit2
    \/ FdcInsertSubmitSignatures
    \/ FdcFinalization
    \/ FdcValidate

SpecFdc == InitFdc /\ [][NextFdc]_vars

\* C16: for a round in which the monitored identity has no submit2 in
\* [n.start_s, n.reveal_deadline()) and no submitSignatures in the grace
\* window, validate_fdc returns the two issues ERROR "no submit2
\* transaction" and ERROR "no submit signatures transaction" and no other.
C16_FdcMissingSubmit2TwoErrors ==
    (/\ pc = "fdc_validated"
     /\ InWindow(arg.round.fdc.submit_2, StartS(N), StartS(N) + 45) = {}
     /\ InWindow(arg.round.fdc.submit_signatures, StartS(N) + 45,
                 SigGrace(E, arg.round.fdc.finalization)) = {})
        => /\ ~res.raised
           /\ res.issues = <<Issue("ERROR", "no submit2 transaction"),
                             Issue("ERROR", "no submit signatures transaction")>>

SignatureOffenceMessage ==
    "no submit signatures transaction, causing reveal offence"

GracePeriodMessage ==
    "no submit signatures transaction during grace period, causing loss of rewards"

\* s2, expected_signatures, ssd and ss of the round validated, from the
\* payloads of the monitored identity and the windows of the round
FdcFacts ==
    LET fdc == arg.round.fdc
        sel == ExtractLatest(Bucket(fdc.submit_2, Tia),
                   [start |-> StartS(N), stop |-> StartS(N) + 45])
        n   == Cardinality({fdc.requests[i].data :
                               i \in 1..Len(fdc.requests)})
        consensus == Inflate(TopMessage(fdc.consensus_bitvote))
    IN  [s2  |-> sel # <<>>,
         expected |->
             sel # <<>> =>
                 /\ sel[1].number_of_requests = n
                 /\ \A i \in 1..n : consensus[i] => sel[1].bit_vector[i],
         ssd |-> InWindow(fdc.submit_signatures, StartS(N) + 45, EndS(N)) # {},
         ss  |-> InWindow(fdc.submit_signatures, StartS(N) + 45,
                          SigGrace(E, fdc.finalization)) # {}]

ParseBitvote(payload) ==
    [n_requests |-> payload[1] * 256 + payload[2],
     votes      |-> SubSeq(payload, 3, Len(payload))]

\* the two bytes ByteParser.uint16() reads n from
Uint16Bytes(n) == <<n \div 256, n % 256>>

BitValue(bit) == IF bit THEN 1 ELSE 0

ByteCount(n) == (n + 7) \div 8

\* the integer a sequence of bytes holds, most significant byte first
RECURSIVE BigEndianValue(_)
BigEndianValue(bytes) ==
    IF bytes = <<>> THEN 0
    ELSE BigEndianValue(SubSeq(bytes, 1, Len(bytes) - 1)) * 256
             + bytes[Len(bytes)]

\* the sum of BitValue(b[i]) * 2 ^ (Len(b) - i) over the indices from i on:
\* the first element of b is the most significant bit
RECURSIVE MostSignificantFirstValue(_, _)
MostSignificantFirstValue(b, i) ==
    IF i > Len(b) THEN 0
    ELSE BitValue(b[i]) * 2 ^ (Len(b) - i) + MostSignificantFirstValue(b, i + 1)

\* b packed with its first element as the most significant bit of a
\* big-endian integer, right-aligned in ByteCount(Len(b)) bytes
PackMostSignificantFirst(b) ==
    LET len == ByteCount(Len(b))
        v   == MostSignificantFirstValue(b, 1)
    IN  [k \in 1..len |-> (v \div (256 ^ (len - k))) % 256]

\* bit `shift` of byte k of the standard little-endian packing of b: element
\* 8 * (k - 1) + shift of b (counted from 0), absent elements being 0
RECURSIVE LittleEndianByte(_, _, _)
LittleEndianByte(b, k, shift) ==
    IF shift > 7 THEN 0
    ELSE LET i == 8 * (k - 1) + shift + 1
         IN  (IF i <= Len(b) THEN BitValue(b[i]) * 2 ^ shift ELSE 0)
                 + LittleEndianByte(b, k, shift + 1)

\* b packed in the standard little-endian way: element i is bit i mod 8 of
\* byte i div 8
PackLittleEndian(b) ==
    [k \in 1..ByteCount(Len(b)) |-> LittleEndianByte(b, k, 0)]

Packings == {"most_significant_first", "little_endian"}

Pack(packing, b) ==
    IF packing = "little_endian" THEN PackLittleEndian(b)
    ELSE PackMostSignificantFirst(b)

\* byte with bit `shift` set
WithBit(byte, shift) == IF BitSet(byte, shift) THEN byte ELSE byte + 2 ^ shift

InitInflate ==
    /\ IdleVrm
    /\ IdleLoop
    /\ spb = NewBuilder
    /\ signing_policy = NoPolicy
    /\ \E n \in 0..MaxBits : \E b \in [1..n -> BOOLEAN] :
        arg = [b |-> b, packing |-> "none", altered |-> FALSE,
               payload |-> <<>>]
    /\ res = <<>>
    /\ pc = "pack"

InflateFrame == UNCHANGED <<vrmVars, polVars, loopVars>>

\* a voter packs b: uint16 n_requests followed by the packed bytes
InflatePack ==
    /\ pc = "pack"
    /\ \E packing \in Packings :
        arg' = [arg EXCEPT !.packing = packing,
                           !.payload = Uint16Bytes(Len(arg.b))
                                           \o Pack(packing, arg.b)]
    /\ pc' = "inflate"
    /\ UNCHANGED res
    /\ InflateFrame

\* another payload with the same n_requests: one more bit of the votes is 1
InflateSetBit ==
    /\ pc = "inflate"
    /\ ~arg.altered
    /\ \E k \in 3..Len(arg.payload), shift \in 0..7 :
        /\ ~BitSet(arg.payload[k], shift)
        /\ arg' = [arg EXCEPT !.altered = TRUE,
                              !.payload[k] = WithBit(@, shift)]
    /\ UNCHANGED <<pc, res>>
    /\ InflateFrame

\* another payload with the same n_requests: one byte more or one byte less
InflateResize ==
    /\ pc = "inflate"
    /\ ~arg.altered
    /\ \/ \E byte \in {0, 1} :
            arg' = [arg EXCEPT !.altered = TRUE,
                               !.payload = SubSeq(@, 1, 2) \o <<byte>>
                                               \o SubSeq(@, 3, Len(@))]
       \/ /\ Len(arg.payload) > 2
          /\ arg' = [arg EXCEPT !.altered = TRUE,
                                !.payload = SubSeq(@, 1, 2)
                                                \o SubSeq(@, 4, Len(@))]
    /\ UNCHANGED <<pc, res>>
    /\ InflateFrame

\* lines 349-361 of validate_fdc on the payload
InflateCall ==
    /\ pc = "inflate"
    /\ LET msg == ParseBitvote(arg.payload)
       IN  res' = IF InflateFails(msg)
                  THEN [raised |-> TRUE, consensus_bitvote |-> <<>>]
                  ELSE [raised |-> FALSE, consensus_bitvote |-> Inflate(msg)]
    /\ pc' = "inflated"
    /\ UNCHANGED arg
    /\ InflateFrame

NextInflate == InflatePack \/ InflateSetBit \/ InflateResize \/ InflateCall

SpecInflate == InitInflate /\ [][NextInflate]_vars

\* what the inflation does to any payload: it raises when the votes, read as
\* a big-endian integer, have a 1-bit at a position >= n_requests (counted
\* from the least significant bit), and otherwise element i (from 0) of the
\* array is bit n_requests - 1 - i of that integer
InflationOfPayload ==
    LET msg == ParseBitvote(arg.payload)
        n   == msg.n_requests
        v   == BigEndianValue(msg.votes)
    IN  /\ res.raised <=> v >= 2 ^ n
        /\ ~res.raised =>
            /\ Len(res.consensus_bitvote) = n
            /\ \A i \in 0..(n - 1) :
                res.consensus_bitvote[i + 1] <=> BitSet(v, n - 1 - i)

\* inflating the unaltered packing of b yields b
RoundTrip(packing) ==
    (pc = "inflated" /\ arg.packing = packing /\ ~arg.altered) =>
        /\ ~res.raised
        /\ res.consensus_bitvote = arg.b

\* C19 as stated, the packing being the standard little-endian one: for every
\* n_requests <= MaxBits and every boolean array b of that length, inflating
\* uint16 n_requests followed by the little-endian packed bytes of b yields b.
C19_InflationInvertsLittleEndianPacking == RoundTrip("little_endian")

\* C19: for every n_requests <= MaxBits and every boolean array b of that
\* length, inflating uint16 n_requests followed by the bytes that hold b with
\* b[0] as the most significant bit of a right-aligned big-endian integer
\* yields b; and every payload fails exactly when a 1-bit of its votes has a
\* position >= n_requests, and never yields an array then.
C19_InflationInvertsMostSignificantFirstPacking ==
    /\ RoundTrip("most_significant_first")
    /\ pc = "inflated" => InflationOfPayload

\* an array of more than eight bits, not a palindrome, was packed most
\* significant bit first and inflated back
C19_Witness ==
    /\ pc = "inflated"
    /\ arg.packing = "most_significant_first"
    /\ ~arg.altered
    /\ Len(arg.b) > 8
    /\ arg.b[1] /\ ~arg.b[Len(arg.b)]
    /\ ~res.raised
    /\ res.consensus_bitvote = arg.b

(***************************************************************************)
(* SpecAdd: a SigningPolicyBuilder on its own, receiving add calls of      *)
(* every kind in any order; a caller that catches the AssertionError of a  *)
(* refused add keeps the builder and goes on.                              *)
(***************************************************************************)
AddEvents ==
    RandomAcquisitionStartedEvents
    \cup VotePowerBlockSelectedEvents
    \cup {ev \in VoterRegisteredEvents :
             ev.signing_policy_address = "p1" /\ ev.submit_address = "s1"}
    \cup {ev \in VoterRegistrationInfoEvents : ev.delegation_address = "d1"}
    \cup VoterRemovedEvents
    \cup {ev \in SigningPolicyInitializedEvents({2}) : ev.voters = <<"p1">>}

InitAdd ==
    /\ IdleVrm
    /\ IdleLoop
    /\ IdleCall
    /\ spb = NewBuilder
    /\ signing_policy = NoPolicy
    /\ pc = "add"

\* builder.add(ev); nLogs counts the calls, res tells the last one
BuilderAdd(ev) ==
    /\ pc = "add"
    /\ nLogs < MaxAdds
    /\ nLogs' = nLogs + 1
    /\ IF AddOk(spb, ev)
       THEN spb' = Add(spb, ev) /\ res' = [raised |-> FALSE, event |-> ev]
       ELSE spb' = spb /\ res' = [raised |-> TRUE, event |-> ev]
    /\ UNCHANGED <<vrmVars, signing_policy, pc, chain, block_number,
                   latest_block, block, voting_epoch, processedMax, nTxs,
                   validated, lastTx, arg>>

AddRandomAcquisitionStarted ==
    \E ev \in AddEvents : ev.kind = "RandomAcquisitionStarted" /\ BuilderAdd(ev)

AddVotePowerBlockSelected ==
    \E ev \in AddEvents : ev.kind = "VotePowerBlockSelected" /\ BuilderAdd(ev)

AddVoterRegistered ==
    \E ev \in AddEvents : ev.kind = "VoterRegistered" /\ BuilderAdd(ev)

AddVoterRegistrationInfo ==
    \E ev \in AddEvents : ev.kind = "VoterRegistrationInfo" /\ BuilderAdd(ev)

AddVoterRemoved ==
    \E ev \in AddEvents : ev.kind = "VoterRemoved" /\ BuilderAdd(ev)

AddSigningPolicyInitialized ==
    \E ev \in AddEvents : ev.kind = "SigningPolicyInitialized" /\ BuilderAdd(ev)

NextAdd ==
    \/ AddRandomAcquisitionStarted
    \/ AddVotePowerBlockSelected
    \/ AddVoterRegistered
    \/ AddVoterRegistrationInfo
    \/ AddVoterRemoved
    \/ AddSigningPolicyInitialized

SpecAdd == InitAdd /\ [][NextAdd]_vars

\* the singleton slot an event of this kind is stored in, <<>> for the kinds
\* that are appended to a list
SlotOf(b, kind) ==
    CASE kind = "RandomAcquisitionStarted" -> b.random_acquisation_started
      [] kind = "VotePowerBlockSelected"   -> b.vote_power_block_selected
      [] kind = "SigningPolicyInitialized" -> b.signing_policy_initialized
      [] OTHER -> NoEvent

SingletonKinds ==
    {"RandomAcquisitionStarted", "VotePowerBlockSelected",
     "SigningPolicyInitialized"}

IsPrefix(s, t) == Len(s) <= Len(t) /\ SubSeq(t, 1, Len(s)) = s

\* C20: an add of a singleton kind whose slot is set fails and leaves every
\* field of the builder as it was, an add of a singleton kind whose slot is
\* empty stores the event, so a set slot keeps its first event for ever; an
\* add of a registration event never fails, appends it to its own list, and no
\* add removes or reorders what the three lists hold.
C20_SingletonSlotsSetOnceListsAppendOnly ==
    [][nLogs' = nLogs + 1 =>
        LET ev == res'.event IN
        /\ (ev.kind \in SingletonKinds /\ SlotOf(spb, ev.kind) # NoEvent) =>
               res'.raised /\ spb' = spb
        /\ (ev.kind \in SingletonKinds /\ SlotOf(spb, ev.kind) = NoEvent) =>
               ~res'.raised /\ SlotOf(spb', ev.kind) = <<ev>>
        /\ ev.kind \notin SingletonKinds => ~res'.raised
        /\ \A kind \in SingletonKinds :
               SlotOf(spb, kind) # NoEvent =>
                   SlotOf(spb', kind) = SlotOf(spb, kind)
        /\ IsPrefix(spb.voter_registered, spb'.voter_registered)
        /\ IsPrefix(spb.voter_registration_info, spb'.voter_registration_info)
        /\ IsPrefix(spb.voter_removed, spb'.voter_removed)
        /\ spb'.voter_registered =
               IF ev.kind = "VoterRegistered"
               THEN Append(spb.voter_registered, ev) ELSE spb.voter_registered
        /\ spb'.voter_registration_info =
               IF ev.kind = "VoterRegistrationInfo"
               THEN Append(spb.voter_registration_info, ev)
               ELSE spb.voter_registration_info
        /\ spb'.voter_removed =
               IF ev.kind = "VoterRemoved"
               THEN Append(spb.voter_removed, ev) ELSE spb.voter_removed
    ]_vars

\* a second SigningPolicyInitialized, for another reward epoch, was refused by
\* a builder that holds the first one and two registrations in their order
C20_Witness ==
    /\ pc = "add"
    /\ res # <<>>
    /\ res.raised
    /\ res.event.kind = "SigningPolicyInitialized"
    /\ spb.signing_policy_initialized # NoEvent
    /\ spb.signing_policy_initialized # <<res.event>>
    /\ Len(spb.voter_registered) = 2
    /\ spb.voter_registered[1] # spb.voter_registered[2]

(***************************************************************************)
(* Claims about the builder in the live loop.                              *)
(***************************************************************************)

\* C21: once the builder holds a SigningPolicyInitialized event, no step of
\* the loop changes the builder, except the rollover that replaces it by a
\* fresh one.
C21_InitializedBuilderIsFrozen ==
    [][spb.signing_policy_initialized # NoEvent =>
           \/ spb' = spb
           \/ /\ pc = "block"
              /\ spb'.signing_policy_initialized = NoEvent]_vars

(***************************************************************************)
(* Claims about finalize in the loop.                                      *)
(***************************************************************************)

\* C22: every round a finalize call pops without returning it (the branch
\* k.id <= finalized) has been returned by finalize, in that call or in an
\* earlier one.
C22_DroppedRoundsWereReturned ==
    lastOp = "finalize" =>
        \A i \in 1..Len(lastDropped) : Returned(lastDropped[i]) >= 1

\* the step is the call vrm.finalize(block_data) of the iteration on `block`
FinalizeStep ==
    /\ pc \in {"logs", "txs"}
    /\ pc' \in {"block", "poll", "abort_validate"}
    /\ lastOp' = "finalize"

C24_NoCompletedRoundLeftAfterFinalize ==
    lastOp = "finalize" =>
        \A k \in Keys(rounds) :
            /\ ~(EndS(NextOf(k)) < lastTs)
            /\ ~(k <= finalized)

\* a finalize call returned a round, popped a late one, and left alive a
\* round whose next epoch ends exactly at the block's timestamp
C24_Witness ==
    /\ lastOp = "finalize"
    /\ lastRet # <<>>
    /\ lastDropped # <<>>
    /\ \E k \in Keys(rounds) : EndS(NextOf(k)) = lastTs

(***************************************************************************)
(* Claims about the ingestion of transactions.                             *)
(***************************************************************************)
\* the round of epoch v in rs, a fresh one when rs has none
RoundOrNew(rs, v) == IF v \in Keys(rs) THEN RoundOf(rs, v) ELSE NewRound(v)

\* mapper m1 is mapper m0 with wpp appended to the list of identity id
AppendedUnder(m0, m1, id, wpp) ==
    /\ DOMAIN m1 = (DOMAIN m0) \cup {id}
    /\ m1[id] = Append(IF id \in DOMAIN m0 THEN m0[id] ELSE <<>>, wpp)
    /\ \A x \in DOMAIN m0 : x # id => m1[x] = m0[x]

Buckets == {"submit_1", "submit_2", "submit_signatures"}

NoSignaturesMessage == "no submit signatures transaction"

\* C26: validate_ftso reports 'no submit signatures transaction' exactly when
\* no submitSignatures of the monitored identity has a timestamp t with
\* n.reveal_deadline() <= t < sig_grace, where sig_grace is
\* max(n.start_s + 56, finalization.timestamp + 1) with a finalization and
\* n.start_s + 56 without; so a signature of the block of the finalization
\* (not before the reveal deadline) is eligible, and signatures before the
\* reveal deadline, or after both n.start_s + 55 and the finalization, are not.
C26_SignatureEligibleInGraceWindow ==
    pc = "ftso_validated" =>
        LET fin   == arg.round.ftso.finalization
            sigs  == Bucket(arg.round.ftso.submit_signatures, Tia)
            grace == IF fin = NoEvent THEN StartS(N) + 56
                     ELSE IF fin[1].timestamp + 1 > StartS(N) + 56
                     THEN fin[1].timestamp + 1 ELSE StartS(N) + 56
            eligible(t) == RevealDeadline(N) <= t /\ t < grace
        IN  /\ CountOf(res, NoSignaturesMessage) =
                   IF \E i \in 1..Len(sigs) : eligible(sigs[i].timestamp)
                   THEN 0 ELSE 1
            /\ \A i \in 1..Len(sigs) :
                   LET t == sigs[i].timestamp IN
                   /\ (fin # NoEvent /\ t = fin[1].timestamp
                           /\ RevealDeadline(N) <= t) => eligible(t)
                   /\ t < RevealDeadline(N) => ~eligible(t)
                   /\ (t > StartS(N) + 55
                           /\ (fin # NoEvent => t > fin[1].timestamp))
                          => ~eligible(t)

\* the only signature of the monitored identity is in the block of the
\* finalization, at the end of epoch n, and no signature is reported missing
C26_Witness ==
    /\ pc = "ftso_validated"
    /\ arg.round.ftso.finalization # NoEvent
    /\ arg.round.ftso.finalization[1].timestamp = EndS(N)
    /\ Len(Bucket(arg.round.ftso.submit_signatures, Tia)) = 1
    /\ Bucket(arg.round.ftso.submit_signatures, Tia)[1].timestamp = EndS(N)
    /\ CountOf(res, NoSignaturesMessage) = 0

(***************************************************************************)
(* Claims about the order of the phases of one block.                      *)
(***************************************************************************)
\* the step is the rollover test of BeginBlock finding the start round
RolloverStep == signing_policy' # signing_policy \/ pc' = "abort_build"

\* C27: in the iteration on a block the rollover test comes first, then the
\* logs, then the transactions, under the policy in force after the test,
\* then finalize and the validation: a log is folded only before every
\* transaction of its block, a transaction is ingested only before finalize,
\* the policy changes in none of these steps, and a rollover is triggered
\* only at the head of a block later than every block whose logs were folded;
\* after finalize(b) nothing more is recorded for block b.
C27_PhasesOfABlockInOrder ==
    [][/\ nLogs' = nLogs + 1 =>
              /\ pc = "logs" /\ pc' \in {"logs", "abort_add"}
              /\ block' = block /\ block = processedMax
              /\ signing_policy' = signing_policy
       /\ nTxs' = nTxs + 1 =>
              /\ pc \in {"logs", "txs"} /\ pc' = "txs"
              /\ block' = block /\ block = processedMax
              /\ UNCHANGED polVars
       /\ FinalizeStep =>
              /\ lastTs' = chain[block] /\ block = processedMax
              /\ UNCHANGED <<polVars, nLogs, nTxs>>
              /\ validated' \subseteq validated \cup Range(lastRet')
       /\ lastOp' = "finalize" /\ lastOp # "finalize" => FinalizeStep
       /\ RolloverStep =>
              /\ pc = "block" /\ block > processedMax
              /\ UNCHANGED <<nLogs, nTxs, vrmVars>>
       /\ pc = "block" => pc' \in {"block", "logs", "abort_build"}
       /\ pc = "txs" => pc' \in {"txs", "block", "poll", "abort_validate"}
      ]_vars

\* a SigningPolicyInitialized log was folded in block 2 and the rollover was
\* triggered at the head of block 3, after a transaction and the finalize of
\* block 2
C27_Witness ==
    /\ pc = "abort_build"
    /\ spb.signing_policy_initialized # NoEvent
    /\ block = 3
    /\ nTxs >= 1
    /\ lastOp = "finalize"

(***************************************************************************)
(* SpecSearch: one of the two searches of find_voter_registration_blocks.  *)
(* The search moves by 100 blocks, so of the chain only the blocks 100     *)
(* apart from the first guess matter: chain[p] is the timestamp of the     *)
(* p-th of them, counted in seconds from the target timestamp              *)
(* (reward_epoch.start_s - 9000 or - 3600); `block` is the position of the *)
(* guess and arg.d the difference d.                                       *)
(***************************************************************************)
\* the tolerance of `while abs(d) > 600`
Tolerance == 600

Abs(x) == IF x < 0 THEN 0 - x ELSE x

\* d // abs(d), for d # 0
Sign(d) == IF d < 0 THEN 0 - 1 ELSE 1

\* timestamps around the tolerance window
SearchOffsets ==
    {0 - 2 * Tolerance - 1, 0 - Tolerance - 1, 0 - Tolerance, 0, Tolerance,
     Tolerance + 1, 2 * Tolerance + 1}

\* the chains with non-decreasing block timestamps
SearchChains ==
    {c \in [1..MaxPositions -> SearchOffsets] :
        \A i, j \in 1..MaxPositions : i <= j => c[i] <= c[j]}

InitSearch ==
    /\ IdleVrm
    /\ spb = NewBuilder
    /\ signing_policy = NoPolicy
    /\ chain \in SearchChains
    /\ block \in 1..MaxPositions
    /\ arg = [target |-> "start", d |-> 0]
    /\ res = <<>>
    /\ block_number = NoneInt
    /\ latest_block = NoneInt
    /\ voting_epoch = NoneInt
    /\ processedMax = NoneInt
    /\ nLogs = 0
    /\ nTxs = 0
    /\ validated = {}
    /\ lastTx = "none"
    /\ pc = "search_guess"

SearchFrame ==
    UNCHANGED <<vrmVars, polVars, block_number, latest_block,
                voting_epoch, processedMax, nLogs, nTxs, validated, lastTx,
                res>>

\* block = await w.eth.get_block(start_block_id); d = timestamp - target
SearchFirstGuess ==
    /\ pc = "search_guess"
    /\ arg' = [arg EXCEPT !.d = chain[block]]
    /\ pc' = "search_loop"
    /\ UNCHANGED <<block, chain>>
    /\ SearchFrame

\* one iteration of `while abs(d) > 600`: 100 blocks towards the target and
\* the block there fetched, which fails when the chain has no such block
SearchMove ==
    /\ pc = "search_loop"
    /\ Abs(arg.d) > Tolerance
    /\ block' = block - Sign(arg.d)
    /\ IF block' \in 1..MaxPositions
       THEN arg' = [arg EXCEPT !.d = chain[block']] /\ pc' = "search_loop"
       ELSE arg' = arg /\ pc' = "abort_rpc"
    /\ UNCHANGED chain
    /\ SearchFrame

\* the loop ends; after the first search the second one starts from its own
\* guess, the timestamps now counted from its own target; after the second
\* the function returns
SearchFound ==
    /\ pc = "search_loop"
    /\ Abs(arg.d) <= Tolerance
    /\ IF arg.target = "start"
       THEN /\ arg' = [arg EXCEPT !.target = "end"]
            /\ pc' = "search_guess"
            /\ block' \in 1..MaxPositions
            /\ chain' \in SearchChains
       ELSE pc' = "returned" /\ UNCHANGED <<arg, block, chain>>
    /\ SearchFrame

NextSearch == SearchFirstGuess \/ SearchMove \/ SearchFound

SpecSearch == InitSearch /\ [][NextSearch]_vars /\ WF_vars(NextSearch)

\* C28: on every chain with non-decreasing timestamps the search ends: the
\* function returns (or a fetch fails).
C28_SearchTerminates == <>(pc \in {"returned", "abort_rpc"})

(***************************************************************************)
(* Claims about the start of the loop.                                     *)
(***************************************************************************)
\* the voting epoch of the head block read at startup
StartupEpoch == FromTimestamp(StartS(1))

\* C29: the catch-up ends at the first block of the epoch after the startup
\* epoch and the manager starts with finalized = the startup epoch's id; no
\* round with an id <= that id is ever returned or validated; and the first
\* block the main loop processes is the block that ended the catch-up.
C29_MainLoopStartsAtCatchUpBlock ==
    [][/\ (pc = "catchup" /\ pc' = "poll") =>
              /\ FromTimestamp(chain'[block_number']) = NextOf(StartupEpoch)
              /\ \A n \in 1..(block_number' - 1) :
                     FromTimestamp(chain'[n]) # NextOf(StartupEpoch)
              /\ finalized' = StartupEpoch
              /\ voting_epoch' = NextOf(StartupEpoch)
       /\ \A k \in DOMAIN returnCount' : k > StartupEpoch
       /\ \A k \in validated' : k > StartupEpoch
       /\ (pc = "block" /\ processedMax = NoneInt) =>
              /\ FromTimestamp(chain'[block]) = NextOf(StartupEpoch)
              /\ \A n \in 1..(block - 1) :
                     FromTimestamp(chain'[n]) # NextOf(StartupEpoch)
      ]_vars

(***************************************************************************)
(* Claims about ties in extract_latest.                                    *)
(***************************************************************************)
\* C30: when several payloads of the range share the greatest timestamp,
\* extract_latest returns the one of them that was appended first.
C30_FirstInsertedOfLatestWins ==
    (pc = "extracted" /\ res # <<>>) =>
        LET agg    == arg.agg
            inside == {i \in 1..Len(agg) :
                          /\ arg.r.start <= agg[i].timestamp
                          /\ agg[i].timestamp < arg.r.stop}
            latest == {i \in inside :
                          \A j \in inside :
                              agg[j].timestamp <= agg[i].timestamp}
        IN  /\ res[1].id \in latest
            /\ \A i \in latest : res[1].id <= i

\* the second and the third payload share the greatest timestamp of the
\* range, after an earlier payload of the range, and the second is returned
C30_Witness ==
    /\ pc = "extracted"
    /\ Len(arg.agg) = 3
    /\ arg.r.start <= arg.agg[1].timestamp
    /\ arg.agg[1].timestamp < arg.agg[2].timestamp
    /\ arg.agg[2].timestamp = arg.agg[3].timestamp
    /\ arg.agg[3].timestamp < arg.r.stop
    /\ res # <<>>
    /\ res[1].id = 2

====
